---- MODULE Spec2Model ----
(***************************************************************************)
(* Summer-Home-Recommender: the ranking engine of                          *)
(* app/services/recommender.py (SearchCriteria, PropertyRecommender), the  *)
(* catalog loader of app/utils/helpers.py and the recommendation call of   *)
(* app/services/chatbot.py.                                                *)
(*                                                                         *)
(* Numbers.  Python computes the scores in binary floating point; here a   *)
(* score is an exact rational <<n, d>> in lowest terms with d > 0, so the  *)
(* formulas are the real-number formulas the code writes down.  Prices,    *)
(* budgets, bedrooms and group sizes are integers.                         *)
(*                                                                         *)
(* Text.  A Python str is a sequence of one-character strings; lower(),    *)
(* strip(), split(), join() and the `in` substring test are computed on    *)
(* those sequences.  The only whitespace character drawn is " ".           *)
(*                                                                         *)
(* Optional values.  None is the empty sequence, a present value x is the  *)
(* one-element sequence <<x>>.                                             *)
(*                                                                         *)
(* Exceptions.  Every modelled call returns [exc, val]: exc = "none" and   *)
(* val the returned value, or exc the name of the exception raised.        *)
(***************************************************************************)
EXTENDS Integers, Sequences, FiniteSets, TLC

VARIABLES
  properties,   \* PropertyRecommender.properties: the catalog, in order
  criteria,     \* the SearchCriteria of the request being served
  top_k,        \* the top_k argument of the request being served
  recs,         \* what get_recommendations returned / raised for the request
  detailed,     \* what get_detailed_recommendations returned / raised
  score,        \* the last call of a single scorer: [fn, ret]
  properties_data,  \* the parsed properties.json handed to the loader
  chatbot,      \* the call of ChatbotService.get_location_recommendation
  requests,     \* the ranking calls in progress on the one recommender
  all_users,    \* User.all_users: the process-wide list of users
  account,      \* the last call of create_user_account
  sessions,     \* st.session_state of every browser session: sign-in part
  selected_preferences,  \* st.session_state.selected_preferences of a session
  session_recommendations  \* st.session_state.recommendations of that session

\* What the application holds beside the recommender and its inputs
accounts == <<all_users, account, sessions>>
search == <<selected_preferences, session_recommendations>>
app == <<requests, accounts, search>>

vars ==
  <<properties, criteria, top_k, recs, detailed, score, properties_data, chatbot,
    app>>

----------------------------------------------------------------------------
(* Bounds of the model *)

MaxCatalog == 3      \* longest catalog drawn for the ranking specification
MaxTopK == 3         \* largest top_k drawn (the smallest is -1)
MaxPrice == 17       \* largest price_per_night drawn for the scorers
MaxBudget == 10      \* largest min_budget / max_budget drawn for the scorers
MaxBedrooms == 6     \* largest bedroom count drawn for the scorers
MaxGroupSize == 8    \* largest group_size drawn for the scorers
MaxEntries == 3      \* longest properties.json drawn for the loader

----------------------------------------------------------------------------
(* Optional values and call outcomes *)

None == <<>>
Some(x) == <<x>>

\* F applied to the value of v (v is evaluated once, like a Python local)
Let(v, F(_)) == CHOOSE r \in {F(x) : x \in {v}} : TRUE

Ok(v) == [exc |-> "none", val |-> v]
Raise(e, v) == [exc |-> e, val |-> v]

----------------------------------------------------------------------------
(* Exact rational arithmetic *)

Abs(x) == IF x < 0 THEN 0 - x ELSE x

RECURSIVE GCD(_, _)
GCD(a, b) == IF b = 0 THEN a ELSE GCD(b, a % b)

\* n/d in lowest terms with a positive denominator (d # 0)
Q(n, d) ==
  LET g == GCD(Abs(n), Abs(d))
      s == IF d < 0 THEN 0 - 1 ELSE 1
  IN  <<(s * n) \div g, (s * d) \div g>>

Zero == <<0, 1>>
One == <<1, 1>>

QAdd(a, b) == Q(a[1] * b[2] + b[1] * a[2], a[2] * b[2])
QSub(a, b) == Q(a[1] * b[2] - b[1] * a[2], a[2] * b[2])
QMul(a, b) == Q(a[1] * b[1], a[2] * b[2])
QLe(a, b) == a[1] * b[2] <= b[1] * a[2]
QLt(a, b) == a[1] * b[2] < b[1] * a[2]
QMax(a, b) == IF QLt(a, b) THEN b ELSE a
QMin(a, b) == IF QLt(b, a) THEN b ELSE a

----------------------------------------------------------------------------
(* Python str operations on sequences of characters *)

LowerChar(c) ==
  CASE c = "A" -> "a"
    [] c = "B" -> "b"
    [] c = "C" -> "c"
    [] c = "D" -> "d"
    [] c = "E" -> "e"
    [] c = "F" -> "f"
    [] c = "G" -> "g"
    [] c = "H" -> "h"
    [] c = "I" -> "i"
    [] c = "J" -> "j"
    [] c = "K" -> "k"
    [] c = "L" -> "l"
    [] c = "M" -> "m"
    [] c = "N" -> "n"
    [] c = "O" -> "o"
    [] c = "P" -> "p"
    [] c = "Q" -> "q"
    [] c = "R" -> "r"
    [] c = "S" -> "s"
    [] c = "T" -> "t"
    [] c = "U" -> "u"
    [] c = "V" -> "v"
    [] c = "W" -> "w"
    [] c = "X" -> "x"
    [] c = "Y" -> "y"
    [] c = "Z" -> "z"
    [] OTHER -> c

\* A list comprehension over 1..n: the tuple of its entries
List(f) == f \o <<>>

\* str.lower()
Lower(s) == List([i \in DOMAIN s |-> LowerChar(s[i])])

IsSpace(c) == c = " "

SetMin(S) == CHOOSE x \in S : \A y \in S : x <= y
SetMax(S) == CHOOSE x \in S : \A y \in S : y <= x

\* str.strip(): leading and trailing whitespace removed
Strip(s) ==
  LET solid == {i \in DOMAIN s : ~IsSpace(s[i])}
  IN  IF solid = {} THEN <<>> ELSE SubSeq(s, SetMin(solid), SetMax(solid))

\* str.split() with no argument: the maximal runs of non-whitespace; the code
\* only ever puts the result in a set
SplitSet(s) ==
  {SubSeq(s, i, j) : <<i, j>> \in
     {p \in (DOMAIN s) \X (DOMAIN s) :
        /\ p[1] <= p[2]
        /\ \A k \in p[1]..p[2] : ~IsSpace(s[k])
        /\ (p[1] = 1 \/ IsSpace(s[p[1] - 1]))
        /\ (p[2] = Len(s) \/ IsSpace(s[p[2] + 1]))}}

\* sub in s
Contains(sub, s) ==
  \E i \in 0..(Len(s) - Len(sub)) : SubSeq(s, i + 1, i + Len(sub)) = sub

\* ' '.join(list)
RECURSIVE Join(_)
Join(list) ==
  IF list = <<>> THEN <<>>
  ELSE IF Len(list) = 1 THEN list[1]
  ELSE list[1] \o <<" ">> \o Join(Tail(list))

----------------------------------------------------------------------------
(* SearchCriteria.get_adaptive_weights *)

\* (mutant of LocationSpecified: the test without strip())
LocationNotEmpty(c) == c.location # <<>>

\* self.location and self.location.strip()
LocationSpecified(c) == c.location # <<>> /\ Strip(c.location) # <<>>

get_adaptive_weights(c) ==
  IF LocationSpecified(c)
    THEN [location |-> Q(40, 100), budget |-> Q(225, 1000),
          features |-> Q(175, 1000), group_size |-> Q(13, 100),
          environment |-> Q(7, 100)]
    ELSE [location |-> Q(35, 100), budget |-> Q(25, 100),
          features |-> Q(20, 100), group_size |-> Q(13, 100),
          environment |-> Q(7, 100)]

----------------------------------------------------------------------------
(* haversine_distance and distance_to_score *)

\* Earth's radius in kilometres
R == 6371

\* Latitudes and longitudes are in hundredths of a degree and the distance is
\* in metres.  For two points on one meridian (dlon = 0) the haversine
\* formula gives R * |dlat| (radians), for two points on the equator
\* R * |dlon| over the shorter way round; one hundredth of a degree of arc is
\* R * pi / 18000 km = 1111.95 m for R = 6371.  Coordinates are only drawn on
\* one meridian or on the equator.
ArcMetres(centideg) == (centideg * ((R * 17453) \div 1000)) \div 100

haversine_distance(lat1, lon1, lat2, lon2) ==
  IF lon1 = lon2
    THEN ArcMetres(Abs(lat2 - lat1))
    ELSE LET dlon == Abs(lon2 - lon1)
         IN  ArcMetres(IF dlon > 18000 THEN 36000 - dlon ELSE dlon)

\* (mutant of distance_to_score: a distance on a tier boundary falls into the
\* farther tier)
distance_to_score_exclusive(distance_m) ==
  IF distance_m = 0 THEN One
  ELSE IF distance_m < 5 * 1000 THEN One
  ELSE IF distance_m < 25 * 1000 THEN Q(9, 10)
  ELSE IF distance_m < 100 * 1000 THEN Q(7, 10)
  ELSE IF distance_m < 500 * 1000 THEN Q(4, 10)
  ELSE Q(1, 10)

distance_to_score(distance_m) ==
  IF distance_m = 0 THEN One
  ELSE IF distance_m <= 5 * 1000 THEN One
  ELSE IF distance_m <= 25 * 1000 THEN Q(9, 10)
  ELSE IF distance_m <= 100 * 1000 THEN Q(7, 10)
  ELSE IF distance_m <= 500 * 1000 THEN Q(4, 10)
  ELSE Q(1, 10)

----------------------------------------------------------------------------
(* PropertyRecommender._calculate_budget_score *)

\* (mutant of _calculate_budget_score: every price within the budget range
\* scores 1)
budget_score_flat_within_range(prop, c) ==
  LET price == prop.price_per_night IN
  IF price < c.min_budget THEN Ok(Zero)
  ELSE IF price > c.max_budget THEN
    IF c.max_budget = 0 THEN Raise("ZeroDivisionError", Zero)
    ELSE LET overage_ratio == Q(price - c.max_budget, c.max_budget)
         IN  IF QLt(Q(1, 2), overage_ratio) THEN Ok(Zero)
             ELSE Ok(QMax(Zero, QSub(One, overage_ratio)))
  ELSE Ok(One)

\* (mutant of _calculate_budget_score: overage_ratio >= 0.5 scores 0)
budget_score_overage_inclusive(prop, c) ==
  LET price == prop.price_per_night IN
  IF price < c.min_budget THEN Ok(Zero)
  ELSE IF price > c.max_budget THEN
    IF c.max_budget = 0 THEN Raise("ZeroDivisionError", Zero)
    ELSE LET overage_ratio == Q(price - c.max_budget, c.max_budget)
         IN  IF QLe(Q(1, 2), overage_ratio) THEN Ok(Zero)
             ELSE Ok(QMax(Zero, QSub(One, overage_ratio)))
  ELSE
    LET budget_range == c.max_budget - c.min_budget IN
    IF budget_range = 0 THEN Ok(One)
    ELSE LET position_in_range == Q(price - c.min_budget, budget_range)
         IN  Ok(QSub(One, QMul(position_in_range, Q(3, 10))))

_calculate_budget_score(prop, c) ==
  LET price == prop.price_per_night IN
  IF price < c.min_budget THEN Ok(Zero)
  ELSE IF price > c.max_budget THEN
    IF c.max_budget = 0 THEN Raise("ZeroDivisionError", Zero)
    ELSE LET overage_ratio == Q(price - c.max_budget, c.max_budget)
         IN  IF QLt(Q(1, 2), overage_ratio) THEN Ok(Zero)
             ELSE Ok(QMax(Zero, QSub(One, overage_ratio)))
  ELSE
    LET budget_range == c.max_budget - c.min_budget IN
    IF budget_range = 0 THEN Ok(One)
    ELSE LET position_in_range == Q(price - c.min_budget, budget_range)
         IN  Ok(QSub(One, QMul(position_in_range, Q(3, 10))))

----------------------------------------------------------------------------
(* PropertyRecommender._calculate_environment_score *)

kw_mountain ==
  <<
    <<"m","o","u","n","t","a","i","n","_","v","i","e","w">>,
    <<"h","i","k","i","n","g">>,
    <<"s","k","i","_","i","n","_","o","u","t">>,
    <<"c","h","a","l","e","t">>,
    <<"c","a","b","i","n">>,
    <<"m","o","u","n","t","a","i","n">>
  >>

kw_lake ==
  <<
    <<"l","a","k","e","_","v","i","e","w">>,
    <<"l","a","k","e","s","i","d","e">>,
    <<"k","a","y","a","k","s">>,
    <<"l","a","k","e">>,
    <<"w","a","t","e","r","f","r","o","n","t">>
  >>

kw_beach ==
  <<
    <<"o","c","e","a","n","_","v","i","e","w">>,
    <<"b","e","a","c","h","f","r","o","n","t">>,
    <<"o","c","e","a","n">>,
    <<"b","e","a","c","h">>,
    <<"c","o","a","s","t","a","l">>
  >>

kw_city ==
  <<
    <<"a","p","a","r","t","m","e","n","t">>,
    <<"c","o","n","d","o">>,
    <<"c","i","t","y","_","c","e","n","t","e","r">>,
    <<"u","r","b","a","n">>,
    <<"d","o","w","n","t","o","w","n">>
  >>

loc_mountain ==
  {
    <<"b","a","n","f","f">>,
    <<"a","s","p","e","n">>,
    <<"p","a","r","k"," ","c","i","t","y">>,
    <<"w","h","i","s","t","l","e","r">>,
    <<"b","o","u","l","d","e","r">>,
    <<"b","l","u","e"," ","m","o","u","n","t","a","i","n","s">>,
    <<"c","h","a","m","o","n","i","x">>,
    <<"z","e","r","m","a","t","t">>,
    <<"s","t","."," ","m","o","r","i","t","z">>,
    <<"v","a","i","l">>,
    <<"b","r","e","c","k","e","n","r","i","d","g","e">>,
    <<"t","e","l","l","u","r","i","d","e">>,
    <<"j","a","c","k","s","o","n"," ","h","o","l","e">>,
    <<"s","u","n"," ","v","a","l","l","e","y">>,
    <<"b","i","g"," ","s","k","y">>,
    <<"s","t","e","a","m","b","o","a","t">>,
    <<"k","e","y","s","t","o","n","e">>
  }

loc_lake ==
  {
    <<"l","a","k","e"," ","t","a","h","o","e">>,
    <<"l","a","k","e"," ","c","o","m","o">>,
    <<"l","a","k","e"," ","g","e","n","e","v","a">>,
    <<"l","a","k","e"," ","l","o","u","i","s","e">>,
    <<"l","a","k","e"," ","p","l","a","c","i","d">>,
    <<"l","a","k","e"," ","g","e","o","r","g","e">>,
    <<"l","a","k","e"," ","w","i","n","n","i","p","e","s","a","u","k","e","e">>,
    <<"l","a","k","e"," ","m","i","c","h","i","g","a","n">>,
    <<"l","a","k","e"," ","s","u","p","e","r","i","o","r">>,
    <<"l","a","k","e"," ","h","u","r","o","n">>,
    <<"l","a","k","e"," ","e","r","i","e">>,
    <<"l","a","k","e"," ","o","n","t","a","r","i","o">>
  }

loc_beach ==
  {
    <<"m","i","a","m","i">>,
    <<"s","a","n"," ","d","i","e","g","o">>,
    <<"b","a","l","i">>,
    <<"c","a","n","c","u","n">>,
    <<"a","m","a","l","f","i">>,
    <<"c","a","p","e"," ","t","o","w","n">>,
    <<"m","a","u","i">>,
    <<"k","a","u","a","i">>,
    <<"o","a","h","u">>,
    <<"b","i","g"," ","i","s","l","a","n","d">>,
    <<"t","a","h","i","t","i">>,
    <<"b","o","r","a"," ","b","o","r","a">>,
    <<"f","i","j","i">>,
    <<"m","a","l","d","i","v","e","s">>,
    <<"s","a","n","t","o","r","i","n","i">>,
    <<"m","y","k","o","n","o","s">>,
    <<"i","b","i","z","a">>,
    <<"m","a","l","i","b","u">>,
    <<"s","a","n","t","a"," ","b","a","r","b","a","r","a">>,
    <<"d","a","y","t","o","n","a"," ","b","e","a","c","h">>,
    <<"v","i","r","g","i","n","i","a"," ","b","e","a","c","h">>,
    <<"o","u","t","e","r"," ","b","a","n","k","s">>,
    <<"k","e","y"," ","w","e","s","t">>,
    <<"p","a","n","a","m","a"," ","c","i","t","y"," ","b","e","a","c","h">>
  }

loc_city ==
  {
    <<"n","e","w"," ","y","o","r","k">>,
    <<"l","o","n","d","o","n">>,
    <<"t","o","k","y","o">>,
    <<"p","a","r","i","s">>,
    <<"b","e","r","l","i","n">>,
    <<"b","a","r","c","e","l","o","n","a">>,
    <<"r","o","m","e">>,
    <<"a","m","s","t","e","r","d","a","m">>,
    <<"p","r","a","g","u","e">>,
    <<"b","u","d","a","p","e","s","t">>,
    <<"v","i","e","n","n","a">>,
    <<"s","t","o","c","k","h","o","l","m">>,
    <<"c","o","p","e","n","h","a","g","e","n">>,
    <<"o","s","l","o">>,
    <<"h","e","l","s","i","n","k","i">>,
    <<"d","u","b","l","i","n">>,
    <<"e","d","i","n","b","u","r","g","h">>,
    <<"g","l","a","s","g","o","w">>,
    <<"m","a","n","c","h","e","s","t","e","r">>,
    <<"b","o","s","t","o","n">>,
    <<"c","h","i","c","a","g","o">>,
    <<"l","o","s"," ","a","n","g","e","l","e","s">>,
    <<"s","a","n"," ","f","r","a","n","c","i","s","c","o">>,
    <<"s","e","a","t","t","l","e">>,
    <<"d","e","n","v","e","r">>,
    <<"a","t","l","a","n","t","a">>,
    <<"h","o","u","s","t","o","n">>,
    <<"d","a","l","l","a","s">>,
    <<"p","h","o","e","n","i","x">>,
    <<"l","a","s"," ","v","e","g","a","s">>,
    <<"o","r","l","a","n","d","o">>
  }

environment_keywords(env) ==
  CASE env = <<"m","o","u","n","t","a","i","n">> -> kw_mountain
    [] env = <<"l","a","k","e">> -> kw_lake
    [] env = <<"b","e","a","c","h">> -> kw_beach
    [] env = <<"c","i","t","y">> -> kw_city
    [] OTHER -> <<>>

location_environment_map(env) ==
  CASE env = <<"m","o","u","n","t","a","i","n">> -> loc_mountain
    [] env = <<"l","a","k","e">> -> loc_lake
    [] env = <<"b","e","a","c","h">> -> loc_beach
    [] env = <<"c","i","t","y">> -> loc_city
    [] OTHER -> {}

\* (mutant of _calculate_environment_score: the location signal always gets
\* the weight 0.7, also when it is 0)
environment_score_location_weighted(prop, c) ==
  LET env == Lower(c.preferred_environment)
      target_keywords == environment_keywords(env)
  IN
  IF target_keywords = <<>> THEN Ok(Q(5, 10))
  ELSE
    LET location_score ==
          IF Lower(prop.location) \in location_environment_map(env)
            THEN One ELSE Zero
        feature_matches ==
          Let(Lower(prop.location \o <<" ">> \o prop.property_type \o <<" ">>
                    \o Join(prop.features) \o <<" ">> \o Join(prop.tags)),
              LAMBDA property_text :
                Cardinality({i \in DOMAIN target_keywords :
                               Contains(target_keywords[i], property_text)}))
        feature_score ==
          IF feature_matches > 0
            THEN QMin(One, QAdd(Q(6, 10), QMul(Q(feature_matches, 1), Q(1, 10))))
            ELSE Q(3, 10)
    IN  Ok(QAdd(QMul(location_score, Q(7, 10)), QMul(feature_score, Q(3, 10))))

_calculate_environment_score(prop, c) ==
  LET env == Lower(c.preferred_environment)
      target_keywords == environment_keywords(env)
  IN
  IF target_keywords = <<>> THEN Ok(Q(5, 10))
  ELSE
    LET location_score ==
          IF Lower(prop.location) \in location_environment_map(env)
            THEN One ELSE Zero
        feature_matches ==
          Let(Lower(prop.location \o <<" ">> \o prop.property_type \o <<" ">>
                    \o Join(prop.features) \o <<" ">> \o Join(prop.tags)),
              LAMBDA property_text :
                Cardinality({i \in DOMAIN target_keywords :
                               Contains(target_keywords[i], property_text)}))
        feature_score ==
          IF feature_matches > 0
            THEN QMin(One, QAdd(Q(6, 10), QMul(Q(feature_matches, 1), Q(1, 10))))
            ELSE Q(3, 10)
    IN
    IF QLt(Zero, location_score)
      THEN Ok(QAdd(QMul(location_score, Q(7, 10)), QMul(feature_score, Q(3, 10))))
      ELSE Ok(QAdd(QMul(location_score, Q(3, 10)), QMul(feature_score, Q(7, 10))))

----------------------------------------------------------------------------
(* PropertyRecommender._calculate_features_score *)

\* (mutant of _calculate_features_score: the match ratio is added whole, not
\* halved)
features_score_ratio_not_halved(prop, c) ==
  IF c.user_preferences = <<>> THEN Ok(Q(5, 10))
  ELSE
    LET preference_words == SplitSet(Lower(c.user_preferences)) IN
    IF preference_words = {} THEN Ok(Q(5, 10))
    ELSE
      LET matches ==
            Let(Lower(prop.property_type \o <<" ">> \o Join(prop.features)
                      \o <<" ">> \o Join(prop.tags)),
                LAMBDA property_text :
                  Cardinality({w \in preference_words :
                                 Contains(w, property_text)}))
          match_ratio == Q(matches, Cardinality(preference_words))
      IN  Ok(QMin(One, QAdd(Q(5, 10), match_ratio)))

_calculate_features_score(prop, c) ==
  IF c.user_preferences = <<>> THEN Ok(Q(5, 10))
  ELSE
    LET preference_words == SplitSet(Lower(c.user_preferences)) IN
    IF preference_words = {} THEN Ok(Q(5, 10))
    ELSE
      LET matches ==
            Let(Lower(prop.property_type \o <<" ">> \o Join(prop.features)
                      \o <<" ">> \o Join(prop.tags)),
                LAMBDA property_text :
                  Cardinality({w \in preference_words :
                                 Contains(w, property_text)}))
          match_ratio == Q(matches, Cardinality(preference_words))
      IN  Ok(QMin(One, QAdd(Q(5, 10), QMul(match_ratio, Q(5, 10)))))

----------------------------------------------------------------------------
(* PropertyRecommender._calculate_location_score and what it calls *)

\* The first catalog entry whose location is `location` (lower-cased,
\* stripped) decides: its coordinates if it has any, else None.
_get_location_coordinates(props, location) ==
  LET user_location == Strip(Lower(location))
      hits == {i \in DOMAIN props :
                 Strip(Lower(props[i].location)) = user_location}
  IN  IF hits = {} THEN None
      ELSE LET prop == props[SetMin(hits)]
           IN  IF prop.coordinates # None THEN prop.coordinates ELSE None

\* (mutant of _calculate_geographic_distance_score: a record whose coordinates
\* do not resolve is scored as very far away instead of by its name)
geographic_distance_score_unresolved_is_far(props, prop, c) ==
  LET user_coords == _get_location_coordinates(props, c.location) IN
  IF user_coords = None THEN None
  ELSE
    LET prop_coords == _get_location_coordinates(props, prop.location) IN
    IF prop_coords = None THEN Some(Q(1, 10))
    ELSE
      LET distance == haversine_distance(user_coords[1].lat, user_coords[1].lng,
                                         prop_coords[1].lat, prop_coords[1].lng)
      IN  Some(distance_to_score(distance))

_calculate_geographic_distance_score(props, prop, c) ==
  LET user_coords == _get_location_coordinates(props, c.location) IN
  IF user_coords = None THEN None
  ELSE
    LET prop_coords == _get_location_coordinates(props, prop.location) IN
    IF prop_coords = None THEN None
    ELSE
      LET distance == haversine_distance(user_coords[1].lat, user_coords[1].lng,
                                         prop_coords[1].lat, prop_coords[1].lng)
      IN  Some(distance_to_score(distance))

location_aliases ==
  { << <<"n","y","c">>, <<"n","e","w"," ","y","o","r","k">> >>,
    << <<"l","a">>, <<"l","o","s"," ","a","n","g","e","l","e","s">> >>,
    << <<"s","f">>, <<"s","a","n"," ","f","r","a","n","c","i","s","c","o">> >>,
    << <<"m","i","a","m","i"," ","b","e","a","c","h">>, <<"m","i","a","m","i">> >>,
    << <<"l","a","k","e"," ","t","a","h","o","e">>, <<"t","a","h","o","e">> >> }

\* (mutant of _calculate_text_based_location_score: the alias table is not
\* consulted)
text_location_score_without_aliases(prop, c) ==
  LET user_location == Strip(Lower(c.location))
      property_location == Strip(Lower(prop.location))
  IN
  IF user_location = property_location THEN One
  ELSE IF Contains(user_location, property_location)
          \/ Contains(property_location, user_location) THEN Q(9, 10)
  ELSE Q(2, 10)

_calculate_text_based_location_score(prop, c) ==
  LET user_location == Strip(Lower(c.location))
      property_location == Strip(Lower(prop.location))
  IN
  IF user_location = property_location THEN One
  ELSE IF Contains(user_location, property_location)
          \/ Contains(property_location, user_location) THEN Q(9, 10)
  ELSE IF <<user_location, property_location>> \in location_aliases THEN Q(9, 10)
  ELSE Q(2, 10)

_calculate_location_score(props, prop, c) ==
  IF c.location = <<>> THEN Ok(Q(7, 10))
  ELSE
    LET distance_score == _calculate_geographic_distance_score(props, prop, c) IN
    IF distance_score # None THEN Ok(distance_score[1])
    ELSE Ok(_calculate_text_based_location_score(prop, c))

----------------------------------------------------------------------------
(* PropertyRecommender._calculate_group_size_score *)

\* (mutant of _calculate_group_size_score: the penalty for a property that is
\* larger than needed is not held at 0.7)
group_size_score_unclamped(prop, c) ==
  IF prop.bedrooms = None THEN Ok(Q(5, 10))
  ELSE
    LET estimated_capacity == prop.bedrooms[1] * 2 IN
    IF estimated_capacity >= c.group_size THEN
      IF estimated_capacity = c.group_size THEN Ok(One)
      ELSE IF estimated_capacity <= c.group_size + 2 THEN Ok(Q(9, 10))
      ELSE IF c.group_size = 0 THEN Raise("ZeroDivisionError", Zero)
      ELSE LET excess_ratio == Q(estimated_capacity - c.group_size, c.group_size)
           IN  Ok(QSub(One, QMul(excess_ratio, Q(2, 10))))
    ELSE
      IF c.group_size = 0 THEN Raise("ZeroDivisionError", Zero)
      ELSE LET shortage_ratio == Q(c.group_size - estimated_capacity, c.group_size)
           IN  IF QLe(shortage_ratio, Q(25, 100)) THEN Ok(Q(4, 10))
               ELSE IF QLe(shortage_ratio, Q(5, 10)) THEN Ok(Q(2, 10))
               ELSE Ok(Zero)

\* (mutant of _calculate_group_size_score: shortage_ratio < 0.25 and < 0.5)
group_size_score_strict_shortage(prop, c) ==
  IF prop.bedrooms = None THEN Ok(Q(5, 10))
  ELSE
    LET estimated_capacity == prop.bedrooms[1] * 2 IN
    IF estimated_capacity >= c.group_size THEN
      IF estimated_capacity = c.group_size THEN Ok(One)
      ELSE IF estimated_capacity <= c.group_size + 2 THEN Ok(Q(9, 10))
      ELSE IF c.group_size = 0 THEN Raise("ZeroDivisionError", Zero)
      ELSE LET excess_ratio == Q(estimated_capacity - c.group_size, c.group_size)
           IN  Ok(QMax(Q(7, 10), QSub(One, QMul(excess_ratio, Q(2, 10)))))
    ELSE
      IF c.group_size = 0 THEN Raise("ZeroDivisionError", Zero)
      ELSE LET shortage_ratio == Q(c.group_size - estimated_capacity, c.group_size)
           IN  IF QLt(shortage_ratio, Q(25, 100)) THEN Ok(Q(4, 10))
               ELSE IF QLt(shortage_ratio, Q(5, 10)) THEN Ok(Q(2, 10))
               ELSE Ok(Zero)

_calculate_group_size_score(prop, c) ==
  IF prop.bedrooms = None THEN Ok(Q(5, 10))
  ELSE
    LET estimated_capacity == prop.bedrooms[1] * 2 IN
    IF estimated_capacity >= c.group_size THEN
      IF estimated_capacity = c.group_size THEN Ok(One)
      ELSE IF estimated_capacity <= c.group_size + 2 THEN Ok(Q(9, 10))
      ELSE IF c.group_size = 0 THEN Raise("ZeroDivisionError", Zero)
      ELSE LET excess_ratio == Q(estimated_capacity - c.group_size, c.group_size)
           IN  Ok(QMax(Q(7, 10), QSub(One, QMul(excess_ratio, Q(2, 10)))))
    ELSE
      IF c.group_size = 0 THEN Raise("ZeroDivisionError", Zero)
      ELSE LET shortage_ratio == Q(c.group_size - estimated_capacity, c.group_size)
           IN  IF QLe(shortage_ratio, Q(25, 100)) THEN Ok(Q(4, 10))
               ELSE IF QLe(shortage_ratio, Q(5, 10)) THEN Ok(Q(2, 10))
               ELSE Ok(Zero)

----------------------------------------------------------------------------
(* PropertyRecommender._calculate_overall_score *)

\* (mutant of WeightedSum: the class-level weights of SearchCriteria, lines
\* 23-27, instead of the adaptive ones)
WeightedSumClassWeights(scores, weights) ==
  QAdd(QAdd(QAdd(QAdd(
    QMul(scores[1], Q(25, 100)),
    QMul(scores[2], Q(7, 100))),
    QMul(scores[3], Q(20, 100))),
    QMul(scores[4], Q(35, 100))),
    QMul(scores[5], Q(13, 100)))

\* budget*w + environment*w + features*w + location*w + group_size*w, the
\* scores in the order the scorers are called
WeightedSum(scores, weights) ==
  QAdd(QAdd(QAdd(QAdd(
    QMul(scores[1], weights.budget),
    QMul(scores[2], weights.environment)),
    QMul(scores[3], weights.features)),
    QMul(scores[4], weights.location)),
    QMul(scores[5], weights.group_size))

\* The five scorers are called in the order budget, environment, features,
\* location, group size; the first exception raised leaves the method.
_calculate_overall_score(props, prop, c) ==
  Let(<<_calculate_budget_score(prop, c),
        _calculate_environment_score(prop, c),
        _calculate_features_score(prop, c),
        _calculate_location_score(props, prop, c),
        _calculate_group_size_score(prop, c)>>,
      LAMBDA called :
        LET raising == {i \in DOMAIN called : called[i].exc # "none"} IN
        IF raising # {} THEN called[SetMin(raising)]
        ELSE Ok(WeightedSum([i \in DOMAIN called |-> called[i].val],
                            get_adaptive_weights(c))))

----------------------------------------------------------------------------
(* list.sort(key=..., reverse=True) and list[:top_k] *)

\* (mutant of InsertDescending: x goes in front of the entries with its key)
InsertBeforeEqual(sorted, x) ==
  LET n == Cardinality({i \in DOMAIN sorted : QLt(x.key, sorted[i].key)})
  IN  SubSeq(sorted, 1, n) \o <<x>> \o SubSeq(sorted, n + 1, Len(sorted))

\* One step of a stable descending sort: x goes behind every entry whose key
\* is at least its own.
InsertDescending(sorted, x) ==
  LET n == Cardinality({i \in DOMAIN sorted : QLe(x.key, sorted[i].key)})
  IN  SubSeq(sorted, 1, n) \o <<x>> \o SubSeq(sorted, n + 1, Len(sorted))

\* The entries [key, item] in descending order of key; entries with equal
\* keys keep their original order (Python's sort is stable, also reversed).
RECURSIVE sort_reverse(_)
sort_reverse(list) ==
  IF list = <<>> THEN <<>>
  ELSE InsertDescending(sort_reverse(SubSeq(list, 1, Len(list) - 1)),
                        list[Len(list)])

\* (mutant of Slice: list[:k + 1])
SliceOneMore(list, k) ==
  IF k + 1 >= 0 THEN SubSeq(list, 1, IF k + 1 < Len(list) THEN k + 1 ELSE Len(list))
  ELSE SubSeq(list, 1, IF Len(list) + k + 1 > 0 THEN Len(list) + k + 1 ELSE 0)

\* list[:k]: the first k entries, and for k < 0 all but the last -k
Slice(list, k) ==
  IF k >= 0 THEN SubSeq(list, 1, IF k < Len(list) THEN k ELSE Len(list))
  ELSE SubSeq(list, 1, IF Len(list) + k > 0 THEN Len(list) + k ELSE 0)

Items(list) == List([i \in DOMAIN list |-> list[i].item])

----------------------------------------------------------------------------
(* PropertyRecommender.get_recommendations *)

get_recommendations(props, c, k) ==
  Let(List([i \in DOMAIN props |-> _calculate_overall_score(props, props[i], c)]),
      LAMBDA overall :
        LET raising == {i \in DOMAIN props : overall[i].exc # "none"} IN
        IF raising # {} THEN Raise(overall[SetMin(raising)].exc, <<>>)
        ELSE
          Let(List([i \in DOMAIN props |->
                      [key |-> overall[i].val,
                       item |-> [property |-> props[i],
                                 score |-> overall[i].val]]]),
              LAMBDA scored_properties :
                Ok(Slice(Items(sort_reverse(scored_properties)), k))))

----------------------------------------------------------------------------
(* PropertyRecommender.get_detailed_recommendations *)

Breakdown(s, weight) ==
  [score |-> s, weight |-> weight, weighted_score |-> QMul(s, weight)]

\* The dictionary built for one property, or the exception of the first call
\* that raises (the five scorers, then _calculate_overall_score)
Recommendation(props, prop, c) ==
  Let(<<_calculate_budget_score(prop, c),
        _calculate_environment_score(prop, c),
        _calculate_features_score(prop, c),
        _calculate_location_score(props, prop, c),
        _calculate_group_size_score(prop, c),
        _calculate_overall_score(props, prop, c),
        get_adaptive_weights(c)>>,
      LAMBDA called :
        LET raising == {i \in 1..6 : called[i].exc # "none"}
            weights == called[7]
        IN
        IF raising # {} THEN Raise(called[SetMin(raising)].exc, <<>>)
        ELSE Ok(<<[property |-> prop,
                   overall_score |-> called[6].val,
                   score_breakdown |->
                     [budget |-> Breakdown(called[1].val, weights.budget),
                      environment |-> Breakdown(called[2].val, weights.environment),
                      features |-> Breakdown(called[3].val, weights.features),
                      location |-> Breakdown(called[4].val, weights.location),
                      group_size |-> Breakdown(called[5].val, weights.group_size)]]>>))

\* (mutant of get_detailed_recommendations: sorted without reverse=True)
get_detailed_ascending(props, c, k) ==
  Let(List([i \in DOMAIN props |-> Recommendation(props, props[i], c)]),
      LAMBDA built :
        LET raising == {i \in DOMAIN props : built[i].exc # "none"} IN
        IF raising # {} THEN Raise(built[SetMin(raising)].exc, <<>>)
        ELSE
          Let(List([i \in DOMAIN props |->
                      [key |-> QSub(Zero, built[i].val[1].overall_score),
                       item |-> built[i].val[1]]]),
              LAMBDA recommendations :
                Ok(Slice(Items(sort_reverse(recommendations)), k))))

get_detailed_recommendations(props, c, k) ==
  Let(List([i \in DOMAIN props |-> Recommendation(props, props[i], c)]),
      LAMBDA built :
        LET raising == {i \in DOMAIN props : built[i].exc # "none"} IN
        IF raising # {} THEN Raise(built[SetMin(raising)].exc, <<>>)
        ELSE
          Let(List([i \in DOMAIN props |->
                      [key |-> built[i].val[1].overall_score,
                       item |-> built[i].val[1]]]),
              LAMBDA recommendations :
                Ok(Slice(Items(sort_reverse(recommendations)), k))))

----------------------------------------------------------------------------
(* Inputs drawn by the specifications *)

s_Miami == <<"M","i","a","m","i">>
s_miami_beach == <<"m","i","a","m","i"," ","b","e","a","c","h">>
s_Aspen == <<"A","s","p","e","n">>
s_nyc == <<"n","y","c">>
s_New_York == <<"N","e","w"," ","Y","o","r","k">>
s_blank == <<" "," ">>
s_condo == <<"c","o","n","d","o">>
s_cabin == <<"c","a","b","i","n">>
s_villa == <<"v","i","l","l","a">>
s_pool == <<"p","o","o","l">>
s_wifi == <<"w","i","f","i">>
s_hiking == <<"h","i","k","i","n","g">>
s_ocean_view == <<"o","c","e","a","n","_","v","i","e","w">>
s_beachfront == <<"b","e","a","c","h","f","r","o","n","t">>
s_beach == <<"b","e","a","c","h">>
s_Beach == <<"B","e","a","c","h">>
s_mountain == <<"m","o","u","n","t","a","i","n">>
s_city == <<"c","i","t","y">>
s_spa == <<"s","p","a">>
s_pool_wifi == <<"p","o","o","l"," ","w","i","f","i">>
s_POOL_sauna == <<"P","O","O","L"," ","s","a","u","n","a">>
s_MIAMI_padded == <<" ","M","I","A","M","I"," ">>
s_New_York_City == <<"N","e","w"," ","Y","o","r","k"," ","C","i","t","y">>
s_new_york == <<"n","e","w"," ","y","o","r","k">>
s_Paris == <<"P","a","r","i","s">>
s_lake == <<"l","a","k","e">>
s_coastal == <<"c","o","a","s","t","a","l">>

\* Property(...): property_id is set when the listing enters a catalog
Property(location, property_type, price_per_night, features, tags, coordinates, bedrooms) ==
  [property_id |-> 0, location |-> location, property_type |-> property_type,
   price_per_night |-> price_per_night, features |-> features, tags |-> tags,
   coordinates |-> coordinates, bedrooms |-> bedrooms]

Coordinates(lat, lng) == Some([lat |-> lat, lng |-> lng])

\* The listings the ranking specification builds its catalogs from (a
\* listing may enter a catalog more than once, under different ids): one with
\* coordinates, one of the same place without, one far away and over budget
Listings ==
  { Property(s_Miami, s_condo, 2, <<s_pool>>, <<s_beach>>,
             Coordinates(0, 0), Some(2)),
    Property(s_Miami, s_villa, 2, <<s_wifi>>, <<>>, None, Some(2)),
    Property(s_Aspen, s_cabin, 9, <<s_hiking>>, <<s_mountain>>,
             Coordinates(600, 0), Some(1)) }

\* __init__ keeps the list it is given; the ids are the positions
WithIds(list) == [i \in DOMAIN list |-> [list[i] EXCEPT !.property_id = i]]

RECURSIVE SeqsUpTo(_, _)
SeqsUpTo(S, n) ==
  IF n = 0 THEN {<<>>}
  ELSE LET shorter == SeqsUpTo(S, n - 1)
       IN  shorter \cup {Append(s, x) : s \in shorter, x \in S}

Catalogs == {WithIds(list) : list \in SeqsUpTo(Listings, MaxCatalog)}

SearchCriteria(group_size, preferred_environment, min_budget, max_budget, location, user_preferences) ==
  [group_size |-> group_size, preferred_environment |-> preferred_environment,
   min_budget |-> min_budget, max_budget |-> max_budget,
   location |-> location, user_preferences |-> user_preferences]

\* Requests of the ranking specification: a budget range, an empty range at
\* zero and a reversed range; a usable and a zero group size
RankCriteria ==
  { SearchCriteria(g, s_beach, b[1], b[2], l, p) :
      g \in {0, 4},
      b \in {<<1, 3>>, <<0, 0>>, <<3, 1>>},
      l \in {<<>>, s_Miami},
      p \in {s_pool} }

NotCalled == [exc |-> "not_called", val |-> <<>>]
NoScore == [fn |-> "none", prop |-> 0, ret |-> Ok(Zero)]
NoFile == [file |-> "none", entries |-> <<>>, loaded |-> FALSE]
NoChat ==
  [called |-> FALSE, response |-> [kind |-> "none", text |-> <<>>],
   ret |-> Ok(None)]

NoAccount ==
  [called |-> FALSE, email |-> "", password |-> <<>>, before |-> <<>>,
   user |-> None, message |-> ""]

\* No ranking call in progress, no user registered, no session opened
AppAtStart ==
  /\ requests = <<>>
  /\ all_users = <<>>
  /\ account = NoAccount
  /\ sessions = <<>>
  /\ selected_preferences = <<>>
  /\ session_recommendations = <<>>

----------------------------------------------------------------------------
(* The ranking specification: one recommender serving one request *)

Init ==
  /\ properties \in Catalogs
  /\ criteria \in RankCriteria
  /\ top_k \in (0 - 1)..MaxTopK
  /\ recs = NotCalled
  /\ detailed = NotCalled
  /\ score = NoScore
  /\ properties_data = NoFile
  /\ chatbot = NoChat
  /\ AppAtStart

GetRecommendations ==
  /\ recs.exc = "not_called"
  /\ recs' = get_recommendations(properties, criteria, top_k)
  /\ UNCHANGED <<properties, criteria, top_k, detailed, score,
                 properties_data, chatbot, app>>

\* (called for the request once get_recommendations has answered it)
GetDetailedRecommendations ==
  /\ recs.exc # "not_called"
  /\ detailed.exc = "not_called"
  /\ detailed' = get_detailed_recommendations(properties, criteria, top_k)
  /\ UNCHANGED <<properties, criteria, top_k, recs, score,
                 properties_data, chatbot, app>>

Next == GetRecommendations \/ GetDetailedRecommendations

Spec == Init /\ [][Next]_vars

----------------------------------------------------------------------------
(* The worked ranking: three listings A, B, C with their prices, bedrooms  *)
(* and locations fixed, everything else about them drawn, ranked for one   *)
(* fixed request                                                           *)

\* property_type, features and tags of a listing: without a beach keyword,
\* with one, with all five
ScenarioTexts ==
  { <<s_villa, <<s_wifi>>, <<>>>>,
    <<s_cabin, <<s_pool>>, <<s_beach>>>>,
    <<s_condo, <<s_ocean_view, s_beachfront>>, <<s_coastal>>>> }

ScenarioCoordinates == {None, Coordinates(0, 0), Coordinates(600, 0)}

ScenarioCatalogs ==
  { WithIds(<<Property(s_Miami, a[1], 150, a[2], a[3], None, Some(2)),
              Property(s_Aspen, b[1], 900, b[2], b[3], bc, Some(1)),
              Property(s_Miami, c[1], 200, c[2], c[3], cc, Some(3))>>) :
      a \in ScenarioTexts, b \in ScenarioTexts, c \in ScenarioTexts,
      bc \in ScenarioCoordinates, cc \in ScenarioCoordinates }

ScenarioCriteria == SearchCriteria(4, s_beach, 100, 300, s_Miami, <<>>)

InitScenario ==
  /\ properties \in ScenarioCatalogs
  /\ criteria = ScenarioCriteria
  /\ top_k \in 1..MaxTopK
  /\ recs = NotCalled
  /\ detailed = NotCalled
  /\ score = NoScore
  /\ properties_data = NoFile
  /\ chatbot = NoChat
  /\ AppAtStart

SpecScenario == InitScenario /\ [][Next]_vars

----------------------------------------------------------------------------
(* The scorer specification: one call of one scorer, of the weight policy  *)
(* or of the overall score, on inputs drawn per scorer                     *)

BaseProperty ==
  Property(s_Miami, s_condo, 2, <<s_pool>>, <<s_beach>>, Coordinates(0, 0), Some(2))

BaseCriteria == SearchCriteria(4, s_beach, 1, 3, s_Miami, s_pool)

\* every price against every budget pair, reversed and empty ranges included
BudgetInputs ==
  { << WithIds(<<[BaseProperty EXCEPT !.price_per_night = price]>>),
       [BaseCriteria EXCEPT !.min_budget = lo, !.max_budget = hi] >> :
      price \in 0..MaxPrice, lo \in 0..MaxBudget, hi \in 0..MaxBudget }

\* every bedroom count (or none) against every group size from -1 up
GroupSizeInputs ==
  { << WithIds(<<[BaseProperty EXCEPT !.bedrooms = b]>>),
       [BaseCriteria EXCEPT !.group_size = g] >> :
      b \in {None} \cup {Some(n) : n \in 0..MaxBedrooms},
      g \in (0 - 1)..MaxGroupSize }

Places ==
  Listings \cup
  { Property(s_miami_beach, s_condo, 3, <<s_pool, s_ocean_view>>, <<>>,
             Coordinates(3, 0), None),
    Property(s_New_York, s_condo, 2, <<s_wifi, s_beachfront>>, <<s_Beach>>,
             Coordinates(50, 0), Some(2)) }

\* catalogs of one or two places against the texts of a request
TextInputs ==
  { << WithIds(list),
       [BaseCriteria EXCEPT !.preferred_environment = env, !.location = l,
                            !.user_preferences = p] >> :
      list \in SeqsUpTo(Places, 2) \ {<<>>},
      env \in {s_beach, s_Beach, s_mountain, s_spa, <<>>},
      l \in {<<>>, s_blank, s_Miami, s_nyc, s_Aspen},
      p \in {<<>>, s_blank, s_pool_wifi, s_POOL_sauna} }

\* Places for the location scorer: two listings of one place with different
\* coordinates, one of that place without any, one far away, and three that
\* only their names can place
LocationPlaces ==
  { Property(s_Miami, s_condo, 2, <<s_pool>>, <<s_beach>>,
             Coordinates(0, 0), Some(2)),
    Property(s_Miami, s_villa, 2, <<s_wifi>>, <<>>, None, Some(2)),
    Property(s_MIAMI_padded, s_villa, 3, <<s_pool>>, <<>>,
             Coordinates(30, 0), Some(3)),
    Property(s_Aspen, s_cabin, 9, <<s_hiking>>, <<s_mountain>>,
             Coordinates(600, 0), Some(1)),
    Property(s_New_York_City, s_condo, 3, <<s_wifi>>, <<>>, None, Some(1)),
    Property(s_new_york, s_condo, 3, <<s_wifi>>, <<>>, None, Some(1)),
    Property(s_Paris, s_condo, 3, <<s_wifi>>, <<>>, None, Some(1)) }

\* catalogs of one or two of these places against the desired locations
LocationInputs ==
  { << WithIds(list), [BaseCriteria EXCEPT !.location = l] >> :
      list \in SeqsUpTo(LocationPlaces, 2) \ {<<>>},
      l \in {<<>>, s_blank, s_Miami, s_Aspen, s_nyc, s_New_York, s_Paris} }

\* a listing whose text holds every beach keyword, and one with none of any
\* environment, against the four environments
EnvironmentInputs ==
  { << WithIds(<<prop>>), [BaseCriteria EXCEPT !.preferred_environment = env] >> :
      prop \in { Property(s_Miami, s_villa, 2, <<s_ocean_view, s_beachfront>>,
                          <<s_coastal>>, None, Some(2)),
                 Property(s_Paris, s_villa, 2, <<s_wifi>>, <<>>, None, Some(2)) },
      env \in {s_beach, s_city, s_lake, s_mountain} }

ScoreInputs ==
  BudgetInputs \cup GroupSizeInputs \cup TextInputs \cup LocationInputs
    \cup EnvironmentInputs

InitScore ==
  /\ \E input \in ScoreInputs : properties = input[1] /\ criteria = input[2]
  /\ top_k = 1
  /\ recs = NotCalled
  /\ detailed = NotCalled
  /\ score = NoScore
  /\ properties_data = NoFile
  /\ chatbot = NoChat
  /\ AppAtStart

Called(fn, i, ret) ==
  /\ score.fn = "none"
  /\ score' = [fn |-> fn, prop |-> i, ret |-> ret]
  /\ UNCHANGED <<properties, criteria, top_k, recs, detailed,
                 properties_data, chatbot, app>>

CalculateBudgetScore ==
  \E i \in DOMAIN properties :
    Called("budget", i, _calculate_budget_score(properties[i], criteria))

CalculateEnvironmentScore ==
  \E i \in DOMAIN properties :
    Called("environment", i, _calculate_environment_score(properties[i], criteria))

CalculateFeaturesScore ==
  \E i \in DOMAIN properties :
    Called("features", i, _calculate_features_score(properties[i], criteria))

CalculateLocationScore ==
  \E i \in DOMAIN properties :
    Called("location", i, _calculate_location_score(properties, properties[i], criteria))

CalculateGroupSizeScore ==
  \E i \in DOMAIN properties :
    Called("group_size", i, _calculate_group_size_score(properties[i], criteria))

CalculateOverallScore ==
  \E i \in DOMAIN properties :
    Called("overall", i, _calculate_overall_score(properties, properties[i], criteria))

GetAdaptiveWeights == Called("weights", 0, get_adaptive_weights(criteria))

\* The lookup as _calculate_geographic_distance_score calls it: for the
\* desired location (i = 0) or for the location of catalog entry i
GetLocationCoordinates ==
  \E i \in 0..Len(properties) :
    Called("coordinates", i,
           _get_location_coordinates(properties,
             IF i = 0 THEN criteria.location ELSE properties[i].location))

\* The fallback as _calculate_location_score calls it: with a desired location
CalculateTextBasedLocationScore ==
  /\ criteria.location # <<>>
  /\ \E i \in DOMAIN properties :
       Called("text_location", i,
              Ok(_calculate_text_based_location_score(properties[i], criteria)))

NextScore ==
  \/ CalculateBudgetScore
  \/ CalculateEnvironmentScore
  \/ CalculateFeaturesScore
  \/ CalculateLocationScore
  \/ CalculateGroupSizeScore
  \/ CalculateOverallScore
  \/ GetAdaptiveWeights
  \/ GetLocationCoordinates
  \/ CalculateTextBasedLocationScore

SpecScore == InitScore /\ [][NextScore]_vars

----------------------------------------------------------------------------
(* distance_to_score over the distances, and over pairs of points *)

\* The largest distance drawn, in kilometres
MaxDistanceKm == 600

\* Every whole kilometre up to MaxDistanceKm, in metres, and one metre past 0
\* and past each tier boundary
Distances ==
  {km * 1000 : km \in 0..MaxDistanceKm} \cup {1, 5001, 25001, 100001, 500001}

\* Points on one meridian: 0.03 degrees are 3.3 km, 5.4 degrees 600.4 km
Points == {[lat |-> lat, lng |-> 0] : lat \in {0, 3, 540}}

InitDistance ==
  /\ properties = WithIds(<<BaseProperty>>)
  /\ criteria = BaseCriteria
  /\ top_k = 1
  /\ recs = NotCalled
  /\ detailed = NotCalled
  /\ score = NoScore
  /\ properties_data = NoFile
  /\ chatbot = NoChat
  /\ AppAtStart

DistanceToScore ==
  \E distance_m \in Distances :
    Called("distance", distance_m, Ok(distance_to_score(distance_m)))

\* distance_to_score of the haversine distance of two points, as
\* _calculate_geographic_distance_score computes it
DistanceScoreOfPoints ==
  \E a \in Points, b \in Points :
    Called("points", <<a, b>>,
           Ok(distance_to_score(haversine_distance(a.lat, a.lng, b.lat, b.lng))))

NextDistance ==
  \/ DistanceToScore
  \/ DistanceScoreOfPoints

SpecDistance == InitDistance /\ [][NextDistance]_vars

----------------------------------------------------------------------------
(* ChatbotService.get_location_recommendation                              *)
(*                                                                         *)
(* The answer of the completion service is a text of symbols: "{", "}",    *)
(* " ", "x" for any other text, and a member symbol for each `"key":       *)
(* value` of a JSON object, named by its key.  A parsed object is a        *)
(* function from its keys.                                                 *)

required_fields ==
  <<"property_id", "location", "property_type", "price_per_night",
    "bedrooms", "features", "tags", "reasoning">>

\* str.find and str.rfind of one symbol: 0-based index, -1 when absent
find(text, sym) ==
  LET at == {i \in DOMAIN text : text[i] = sym}
  IN  IF at = {} THEN 0 - 1 ELSE SetMin(at) - 1

rfind(text, sym) ==
  LET at == {i \in DOMAIN text : text[i] = sym}
  IN  IF at = {} THEN 0 - 1 ELSE SetMax(at) - 1

\* text[start:end] for start, end >= 0
PySlice(text, start, end) ==
  SubSeq(text, start + 1, IF end < Len(text) THEN end ELSE Len(text))

\* The member symbols: the required keys and one key more
Members == {required_fields[i] : i \in DOMAIN required_fields} \cup {"extra"}

\* json.loads of a text that is to be one object: "{", members, "}"
json_loads(text) ==
  IF /\ Len(text) >= 2
     /\ text[1] = "{" /\ text[Len(text)] = "}"
     /\ \A i \in 2..(Len(text) - 1) : text[i] \in Members \cup {" "}
    THEN Ok([key \in {text[i] : i \in 2..(Len(text) - 1)} \ {" "} |-> "value"])
    ELSE Raise("JSONDecodeError", <<>>)

\* (mutant of all_required_fields: one required field is enough)
any_required_field(property_data) ==
  \E i \in DOMAIN required_fields : required_fields[i] \in DOMAIN property_data

\* all(field in property_data for field in required_fields)
all_required_fields(property_data) ==
  \A i \in DOMAIN required_fields : required_fields[i] \in DOMAIN property_data

\* self.client.chat.completions.create(...) and
\* completion.choices[0].message.content.strip()
ai_response_of(response) ==
  CASE response.kind = "content" -> Ok(Strip(response.text))
    [] response.kind = "timeout" -> Raise("APITimeoutError", <<>>)
    [] response.kind = "error" -> Raise("APIError", <<>>)
    [] response.kind = "no_content" -> Raise("AttributeError", <<>>)

\* The body of the outer try
recommendation_body(props, response) ==
  IF props = <<>> THEN Ok(None)
  ELSE
    LET ai_response == ai_response_of(response) IN
    IF ai_response.exc # "none" THEN ai_response
    ELSE
      LET start_idx == find(ai_response.val, "{")
          end_idx == rfind(ai_response.val, "}") + 1
      IN
      IF start_idx # 0 - 1 /\ end_idx # 0 - 1
        THEN LET property_data ==
                   json_loads(PySlice(ai_response.val, start_idx, end_idx))
             IN  IF property_data.exc = "JSONDecodeError" THEN Ok(None)
                 ELSE IF all_required_fields(property_data.val)
                   THEN Ok(Some(property_data.val))
                   ELSE Ok(None)
        ELSE Ok(None)

\* try: ... except Exception: return None
get_location_recommendation(props, response) ==
  LET body == recommendation_body(props, response)
  IN  IF body.exc # "none" THEN Ok(None) ELSE body

\* Texts the service may answer with: no object, broken objects, objects with
\* every required field, with one missing, with one more, two objects; bare
\* or inside other text
ObjectOf(keys) == <<"{">> \o keys \o <<"}">>

Without(list, n) == SubSeq(list, 1, n - 1) \o SubSeq(list, n + 1, Len(list))

ResponseBodies ==
  { <<>>, <<"x">>, <<"{">>, <<"}">>, <<"}", "{">>, <<"{", "x", "}">>,
    <<"{">> \o required_fields,
    ObjectOf(<<>>),
    ObjectOf(required_fields),
    ObjectOf(required_fields \o <<"extra">>),
    ObjectOf(<<" ">> \o required_fields \o <<" ">>),
    ObjectOf(required_fields) \o <<" ">> \o ObjectOf(required_fields) }
  \cup { ObjectOf(Without(required_fields, n)) : n \in DOMAIN required_fields }

Responses ==
  { [kind |-> "content", text |-> before \o body \o after] :
      before \in {<<>>, <<" ">>, <<"x", " ">>},
      body \in ResponseBodies,
      after \in {<<>>, <<" ", "x">>} }
  \cup { [kind |-> k, text |-> <<>>] : k \in {"timeout", "error", "no_content"} }

InitChat ==
  /\ properties \in {<<>>, WithIds(<<BaseProperty>>)}
  /\ criteria = BaseCriteria
  /\ top_k = 1
  /\ recs = NotCalled
  /\ detailed = NotCalled
  /\ score = NoScore
  /\ properties_data = NoFile
  /\ chatbot \in {[NoChat EXCEPT !.response = r] : r \in Responses}
  /\ AppAtStart

GetLocationRecommendation ==
  /\ ~chatbot.called
  /\ chatbot' = [chatbot EXCEPT
                   !.called = TRUE,
                   !.ret = get_location_recommendation(properties, chatbot.response)]
  /\ UNCHANGED <<properties, criteria, top_k, recs, detailed, score,
                 properties_data, app>>

NextChat == GetLocationRecommendation

SpecChat == InitChat /\ [][NextChat]_vars

----------------------------------------------------------------------------
(* load_properties_from_json                                               *)
(*                                                                         *)
(* properties.json as json.load returns it: a list of entries, each a JSON *)
(* object (a function from its keys) or something that is no object.       *)

required_keys ==
  <<"property_id", "location", "property_type", "price_per_night",
    "features", "tags">>

\* prop_data.get(key)
Get(members, key) == IF key \in DOMAIN members THEN Some(members[key]) ELSE None

\* Property(property_id=prop_data["property_id"], ...,
\*          coordinates=prop_data.get("coordinates"),
\*          bedrooms=prop_data.get("bedrooms"))
property_of(prop_data) ==
  IF ~prop_data.object THEN Raise("TypeError", <<>>)
  ELSE IF \E i \in DOMAIN required_keys :
            required_keys[i] \notin DOMAIN prop_data.members
    THEN Raise("KeyError", <<>>)
  ELSE
    LET d == prop_data.members
    IN  Ok([property_id |-> d.property_id, location |-> d.location,
            property_type |-> d.property_type,
            price_per_night |-> d.price_per_night, features |-> d.features,
            tags |-> d.tags, coordinates |-> Get(d, "coordinates"),
            bedrooms |-> Get(d, "bedrooms")])

\* (mutant of load_entries: the loop ends at the first entry it cannot use)
RECURSIVE load_entries_until_malformed(_)
load_entries_until_malformed(entries) ==
  IF entries = <<>> THEN <<>>
  ELSE LET property_obj == property_of(Head(entries))
       IN  IF property_obj.exc = "none"
             THEN <<property_obj.val>> \o load_entries_until_malformed(Tail(entries))
             ELSE <<>>

\* for prop_data in properties_data: try: append / except: continue
RECURSIVE load_entries(_)
load_entries(entries) ==
  IF entries = <<>> THEN <<>>
  ELSE LET property_obj == property_of(Head(entries))
       IN  IF property_obj.exc = "none"
             THEN <<property_obj.val>> \o load_entries(Tail(entries))
             ELSE load_entries(Tail(entries))

load_properties_from_json(data) ==
  IF data.file = "ok" THEN load_entries(data.entries) ELSE <<>>

\* A JSON object with the six required members and the optional ones given
Entry(id, location, coordinates, bedrooms) ==
  LET required == [property_id |-> id, location |-> location,
                   property_type |-> s_condo, price_per_night |-> 2,
                   features |-> <<s_pool>>, tags |-> <<s_beach>>]
      with_coordinates ==
        IF coordinates = None THEN required
        ELSE [k \in DOMAIN required \cup {"coordinates"} |->
                IF k = "coordinates" THEN coordinates[1] ELSE required[k]]
  IN  IF bedrooms = None THEN with_coordinates
      ELSE [k \in DOMAIN with_coordinates \cup {"bedrooms"} |->
              IF k = "bedrooms" THEN bedrooms[1] ELSE with_coordinates[k]]

\* members without one key
Drop(members, key) == [k \in DOMAIN members \ {key} |-> members[k]]

\* Entries of the file: complete ones (one of them with a latitude of 95
\* degrees), one lacking each required member in turn, and one that is no
\* object
Entries ==
  { [object |-> TRUE, members |-> d] :
      d \in { Entry(1, s_Miami, Coordinates(0, 0), Some(2)),
              Entry(2, s_Miami, Coordinates(9500, 0), None),
              Entry(3, s_Aspen, Coordinates(600, 0), Some(1)),
              Entry(4, s_Paris, None, None) }
            \cup { Drop(Entry(5, s_Aspen, Coordinates(600, 0), Some(1)),
                        required_keys[i]) : i \in DOMAIN required_keys } }
  \cup { [object |-> FALSE, members |-> [k \in {} |-> 0]] }

Files ==
  { [file |-> "ok", entries |-> list, loaded |-> FALSE] :
      list \in SeqsUpTo(Entries, MaxEntries) }
  \cup { [file |-> f, entries |-> <<>>, loaded |-> FALSE] :
           f \in {"missing", "invalid"} }

InitLoad ==
  /\ properties = <<>>
  /\ criteria = BaseCriteria
  /\ top_k = 1
  /\ recs = NotCalled
  /\ detailed = NotCalled
  /\ score = NoScore
  /\ properties_data \in Files
  /\ chatbot = NoChat
  /\ AppAtStart

LoadPropertiesFromJson ==
  /\ properties_data.file # "none" /\ ~properties_data.loaded
  /\ properties' = load_properties_from_json(properties_data)
  /\ properties_data' = [properties_data EXCEPT !.loaded = TRUE]
  /\ UNCHANGED <<criteria, top_k, recs, detailed, score, chatbot, app>>

\* The recommender over the loaded catalog: a coordinate lookup
LookupLoaded == properties_data.loaded /\ GetLocationCoordinates

\* The recommender over the loaded catalog: a location score
ScoreLoaded == properties_data.loaded /\ CalculateLocationScore

NextLoad == LoadPropertiesFromJson \/ LookupLoaded \/ ScoreLoaded

SpecLoad == InitLoad /\ [][NextLoad]_vars

----------------------------------------------------------------------------
(* Ranking calls interleaved on one recommender.  Every call holds its own *)
(* list (scored_properties, recommendations) and reads self.properties;    *)
(* a step of a call is one pass of its loop over self.properties, or its   *)
(* final sort and slice.                                                   *)

\* The largest number of calls in progress, and the largest catalog they share
MaxRequests == 2
MaxShared == 2

\* Catalogs of a condo in Miami and a cabin near Aspen
SharedListings ==
  { Property(s_Miami, s_condo, 2, <<s_pool>>, <<s_beach>>,
             Coordinates(0, 0), Some(2)),
    Property(s_Aspen, s_cabin, 9, <<s_hiking>>, <<s_mountain>>,
             Coordinates(600, 0), Some(1)) }

SharedCatalogs == {WithIds(list) : list \in SeqsUpTo(SharedListings, MaxShared)}

\* A request for a cheap place at a beach and one for a cabin near Aspen
ConcurrentCriteria ==
  << SearchCriteria(4, s_beach, 1, 3, <<>>, s_pool),
     SearchCriteria(2, s_mountain, 5, 10, s_Aspen, s_hiking) >>

\* A call at its start: get_recommendations ("rank") or
\* get_detailed_recommendations ("detailed") for the best entry
Call(kind, c) ==
  [kind |-> kind, criteria |-> c, top_k |-> 1,
   scored_properties |-> <<>>, pc |-> "loop", ret |-> NotCalled]

Calls ==
  << Call("rank", ConcurrentCriteria[1]), Call("rank", ConcurrentCriteria[2]),
     Call("detailed", ConcurrentCriteria[1]), Call("detailed", ConcurrentCriteria[2]) >>

\* The calls in progress; how they are numbered is immaterial, so they are
\* numbered in the order of Calls
CallsInProgress ==
  { [r \in 1..MaxRequests |-> Calls[which[r]]] :
      which \in {f \in [1..MaxRequests -> DOMAIN Calls] :
                   \A r \in 1..(MaxRequests - 1) : f[r] <= f[r + 1]} }

InitConcurrent ==
  /\ properties \in SharedCatalogs
  /\ criteria = BaseCriteria
  /\ top_k = 1
  /\ recs = NotCalled
  /\ detailed = NotCalled
  /\ score = NoScore
  /\ properties_data = NoFile
  /\ chatbot = NoChat
  /\ requests \in CallsInProgress
  /\ all_users = <<>>
  /\ account = NoAccount
  /\ sessions = <<>>
  /\ selected_preferences = <<>>
  /\ session_recommendations = <<>>

\* What one pass of the loop of a call appends for a property, or the
\* exception it raises
Scored(call, prop) ==
  IF call.kind = "rank"
    THEN Let(_calculate_overall_score(properties, prop, call.criteria),
             LAMBDA overall :
               IF overall.exc # "none" THEN Raise(overall.exc, <<>>)
               ELSE Ok([key |-> overall.val,
                        item |-> [property |-> prop, score |-> overall.val]]))
    ELSE Let(Recommendation(properties, prop, call.criteria),
             LAMBDA built :
               IF built.exc # "none" THEN Raise(built.exc, <<>>)
               ELSE Ok([key |-> built.val[1].overall_score,
                        item |-> built.val[1]]))

\* One pass of `for prop in self.properties` of a call
ScoreNextProperty ==
  \E r \in DOMAIN requests :
    LET call == requests[r]
        i == Len(call.scored_properties) + 1
    IN  /\ call.pc = "loop"
        /\ i <= Len(properties)
        /\ requests' = [requests EXCEPT ![r] =
             Let(Scored(call, properties[i]),
                 LAMBDA scored :
                   IF scored.exc # "none"
                     THEN [call EXCEPT !.pc = "done", !.ret = scored]
                     ELSE [call EXCEPT !.scored_properties = Append(@, scored.val)])]
        /\ UNCHANGED <<properties, criteria, top_k, recs, detailed, score,
                       properties_data, chatbot, accounts, search>>

\* (mutant of SortAndReturn: the call sorts the catalog of the recommender
\* in place by its scores before it returns)
SortCatalogAndReturn ==
  \E r \in DOMAIN requests :
    LET call == requests[r]
        sorted == sort_reverse(call.scored_properties)
    IN  /\ call.pc = "loop"
        /\ Len(call.scored_properties) >= Len(properties)
        /\ requests' = [requests EXCEPT ![r] =
             [call EXCEPT !.pc = "done",
                          !.ret = Ok(Slice(Items(sorted), call.top_k))]]
        /\ properties' = [i \in DOMAIN sorted |-> sorted[i].item.property]
        /\ UNCHANGED <<criteria, top_k, recs, detailed, score,
                       properties_data, chatbot, accounts, search>>

\* The end of a call: its list sorted, the first top_k returned
SortAndReturn ==
  \E r \in DOMAIN requests :
    LET call == requests[r] IN
    /\ call.pc = "loop"
    /\ Len(call.scored_properties) >= Len(properties)
    /\ requests' = [requests EXCEPT ![r] =
         [call EXCEPT !.pc = "done",
                      !.ret = Ok(Slice(Items(sort_reverse(call.scored_properties)),
                                       call.top_k))]]
    /\ UNCHANGED <<properties, criteria, top_k, recs, detailed, score,
                   properties_data, chatbot, accounts, search>>

NextConcurrent == ScoreNextProperty \/ SortAndReturn

SpecConcurrent == InitConcurrent /\ [][NextConcurrent]_vars

----------------------------------------------------------------------------
(* User and create_user_account.  A password is a sequence of characters;  *)
(* names, email addresses and messages are strings that are only compared. *)

UpperChars ==
  {"A", "B", "C", "D", "E", "F", "G", "H", "I", "J", "K", "L", "M",
   "N", "O", "P", "Q", "R", "S", "T", "U", "V", "W", "X", "Y", "Z"}

LowerChars == {LowerChar(c) : c \in UpperChars}

DigitChars == {"0", "1", "2", "3", "4", "5", "6", "7", "8", "9"}

\* str.isupper, str.islower, str.isdigit and str.isalnum of one character
isupper(c) == c \in UpperChars
islower(c) == c \in LowerChars
isdigit(c) == c \in DigitChars
isalnum(c) == c \in UpperChars \cup LowerChars \cup DigitChars

\* (is_valid, message)
validate_password(password) ==
  IF password = <<>> THEN
    <<FALSE, "Password cannot be empty">>
  ELSE IF Len(password) < 8 THEN
    <<FALSE, "Password must be at least 8 characters long">>
  ELSE IF ~ \E i \in DOMAIN password : isupper(password[i]) THEN
    <<FALSE, "Password must contain at least one uppercase letter">>
  ELSE IF ~ \E i \in DOMAIN password : islower(password[i]) THEN
    <<FALSE, "Password must contain at least one lowercase letter">>
  ELSE IF ~ \E i \in DOMAIN password : isdigit(password[i]) THEN
    <<FALSE, "Password must contain at least one number">>
  ELSE IF ~ \E i \in DOMAIN password : ~isalnum(password[i]) THEN
    <<FALSE, "Password must contain at least one symbol">>
  ELSE <<TRUE, "Password meets all requirements">>

User(user_id, name, email, password) ==
  [user_id |-> user_id, name |-> name, email |-> email, password |-> password]

\* (mutant of create_user_account: the User is constructed, and so appended
\* to the list, before the password is validated)
create_user_account_before_validation(users, name, email, password) ==
  LET valid == validate_password(password)
      user == User(Len(users) + 1, name, email, password)
  IN  IF ~valid[1]
        THEN [user |-> None, message |-> valid[2], all_users |-> Append(users, user)]
        ELSE [user |-> Some(user), message |-> "Account created successfully",
              all_users |-> Append(users, user)]

\* The user and the message returned, and User.all_users after the call on
\* the list users.  The uuid4 of the new user is its place in the list: an
\* identifier no other user has.
create_user_account(users, name, email, password) ==
  LET valid == validate_password(password)
      user == User(Len(users) + 1, name, email, password)
  IN  IF ~valid[1]
        THEN [user |-> None, message |-> valid[2], all_users |-> users]
        ELSE [user |-> Some(user), message |-> "Account created successfully",
              all_users |-> Append(users, user)]

\* The longest password drawn
MaxPasswordLength == 9

\* The first n characters of base, or base with its last character repeated
\* up to n characters
Pad(base, n) ==
  List([i \in 1..n |-> IF i <= Len(base) THEN base[i] ELSE base[Len(base)]])

\* One character of each class, in every combination; a blank for the symbol
PasswordBases ==
  { SelectSeq(<<"A", "a", "1", "!">>, LAMBDA c : c \in chosen) :
      chosen \in (SUBSET {"A", "a", "1", "!"}) \ {{}} }
  \cup {<<"Z", "z", "9", " ">>}

Passwords ==
  {<<>>} \cup {Pad(base, n) : base \in PasswordBases, n \in 1..MaxPasswordLength}

p_valid == <<"A", "a", "1", "!", "!", "!", "!", "!">>

Emails == {"ann@example.com", "bob@example.com"}

InitAccount ==
  /\ properties = WithIds(<<BaseProperty>>)
  /\ criteria = BaseCriteria
  /\ top_k = 1
  /\ recs = NotCalled
  /\ detailed = NotCalled
  /\ score = NoScore
  /\ properties_data = NoFile
  /\ chatbot = NoChat
  /\ requests = <<>>
  /\ all_users \in {<<>>, <<User(1, "Ann", "ann@example.com", p_valid)>>}
  /\ account = NoAccount
  /\ sessions = <<>>
  /\ selected_preferences = <<>>
  /\ session_recommendations = <<>>

CreateUserAccount ==
  /\ ~account.called
  /\ \E email \in Emails, password \in Passwords :
       LET created == create_user_account(all_users, "Bob", email, password) IN
       /\ all_users' = created.all_users
       /\ account' = [called |-> TRUE, email |-> email, password |-> password,
                      before |-> all_users, user |-> created.user,
                      message |-> created.message]
  /\ UNCHANGED <<properties, criteria, top_k, recs, detailed, score,
                 properties_data, chatbot, requests, sessions, search>>

NextAccount == CreateUserAccount

SpecAccount == InitAccount /\ [][NextAccount]_vars

----------------------------------------------------------------------------
(* Sign-up, login and logout of the browser sessions.  Streamlit runs the  *)
(* script of every session in a thread of its own, and User.all_users is   *)
(* one list for the process: between the lookup User.find_by_email of a    *)
(* sign-up and its create_user_account the handlers of other sessions may  *)
(* run.  current_user refers to a User object of the list: it is the place *)
(* of that user in the list.                                               *)

\* The largest number of sessions and of users
MaxSessions == 2
MaxUsers == 2

\* The place of the first user of the list with this email, or None
find_by_email(users, email) ==
  LET found == {i \in DOMAIN users : users[i].email = email}
  IN  IF found = {} THEN None ELSE Some(SetMin(found))

check_password(user, password) == user.password = password

authenticate(users, email, password) ==
  LET user == find_by_email(users, email)
  IN  IF user # None /\ check_password(users[user[1]], password)
        THEN user ELSE None

authenticate_user(users, email, password) == authenticate(users, email, password)

\* st.session_state of a session at its first run; feedback is the last
\* st.success, st.error or st.info of a handler
NewSession ==
  [authenticated |-> FALSE, current_user |-> None, show_profile_edit |-> FALSE,
   pc |-> "idle", pending |-> None, feedback |-> ""]

\* The view the script renders for a session
Rendered(session) ==
  IF session.authenticated
    THEN IF session.show_profile_edit THEN "profile_edit_view" ELSE "main_app"
    ELSE "auth_ui"

p_weak == <<"a", "b", "c">>

\* What is typed into the forms
FormNames == {"", "Bob"}
FormPasswords == {p_valid, p_weak}

InitAuth ==
  /\ properties = WithIds(<<BaseProperty>>)
  /\ criteria = BaseCriteria
  /\ top_k = 1
  /\ recs = NotCalled
  /\ detailed = NotCalled
  /\ score = NoScore
  /\ properties_data = NoFile
  /\ chatbot = NoChat
  /\ requests = <<>>
  /\ all_users = <<>>
  /\ account = NoAccount
  /\ sessions = [s \in 1..MaxSessions |-> NewSession]
  /\ selected_preferences = <<>>
  /\ session_recommendations = <<>>

\* One session, and the users that other sessions have registered
InitSession ==
  /\ properties = WithIds(<<BaseProperty>>)
  /\ criteria = BaseCriteria
  /\ top_k = 1
  /\ recs = NotCalled
  /\ detailed = NotCalled
  /\ score = NoScore
  /\ properties_data = NoFile
  /\ chatbot = NoChat
  /\ requests = <<>>
  /\ all_users \in {<<>>, <<User(1, "Ann", "ann@example.com", p_valid)>>}
  /\ account = NoAccount
  /\ sessions = <<NewSession>>
  /\ selected_preferences = <<>>
  /\ session_recommendations = <<>>

\* A step of session s that leaves the recommender and the searches alone
SessionStep(s, session, users) ==
  /\ sessions' = [sessions EXCEPT ![s] = session]
  /\ all_users' = users
  /\ UNCHANGED <<properties, criteria, top_k, recs, detailed, score,
                 properties_data, chatbot, requests, account, search>>

\* "Create Account" submitted, up to the lookup of the email
SubmitCreateAccount ==
  \E s \in DOMAIN sessions :
    /\ Rendered(sessions[s]) = "auth_ui"
    /\ sessions[s].pc = "idle"
    /\ Len(all_users) < MaxUsers
    /\ \E name \in FormNames, email \in Emails,
          password \in FormPasswords, confirm_password \in FormPasswords :
         IF name = "" THEN
           SessionStep(s, [sessions[s] EXCEPT !.feedback = "Please fill in all fields."],
                       all_users)
         ELSE IF password # confirm_password THEN
           SessionStep(s, [sessions[s] EXCEPT !.feedback = "Passwords do not match!"],
                       all_users)
         ELSE IF find_by_email(all_users, email) # None THEN
           SessionStep(s, [sessions[s] EXCEPT !.feedback =
                             "An account with this email already exists. Please login instead."],
                       all_users)
         ELSE
           SessionStep(s, [sessions[s] EXCEPT
                             !.pc = "create_user_account",
                             !.pending = Some([name |-> name, email |-> email,
                                               password |-> password])],
                       all_users)

\* The rest of the sign-up: create_user_account and what follows it
CreateAccount ==
  \E s \in DOMAIN sessions :
    /\ sessions[s].pc = "create_user_account"
    /\ LET form == sessions[s].pending[1]
           created == create_user_account(all_users, form.name, form.email, form.password)
       IN  IF created.user # None
             THEN SessionStep(s, [sessions[s] EXCEPT
                                    !.authenticated = TRUE,
                                    !.current_user = Some(created.user[1].user_id),
                                    !.feedback = "Account created successfully! Welcome",
                                    !.pc = "idle", !.pending = None],
                              created.all_users)
             ELSE SessionStep(s, [sessions[s] EXCEPT
                                    !.feedback = created.message,
                                    !.pc = "idle", !.pending = None],
                              created.all_users)

Login ==
  \E s \in DOMAIN sessions :
    /\ Rendered(sessions[s]) = "auth_ui"
    /\ sessions[s].pc = "idle"
    /\ \E email \in Emails, password \in FormPasswords :
         LET user == authenticate_user(all_users, email, password) IN
         IF user # None
           THEN SessionStep(s, [sessions[s] EXCEPT
                                  !.authenticated = TRUE, !.current_user = user,
                                  !.feedback = "Welcome back"],
                            all_users)
           ELSE SessionStep(s, [sessions[s] EXCEPT
                                  !.feedback = "Invalid email or password. Please try again."],
                            all_users)

\* (mutant of Logout: the user of the session is kept)
LogoutKeepsUser ==
  \E s \in DOMAIN sessions :
    /\ sessions[s].authenticated
    /\ SessionStep(s, [sessions[s] EXCEPT !.authenticated = FALSE, !.feedback = ""],
                   all_users)

\* The Logout button of main_app and of profile_edit_view
Logout ==
  \E s \in DOMAIN sessions :
    /\ sessions[s].authenticated
    /\ SessionStep(s, [sessions[s] EXCEPT !.authenticated = FALSE,
                                          !.current_user = None, !.feedback = ""],
                   all_users)

\* The Edit Profile button of main_app
EditProfile ==
  \E s \in DOMAIN sessions :
    /\ Rendered(sessions[s]) = "main_app"
    /\ SessionStep(s, [sessions[s] EXCEPT !.show_profile_edit = TRUE, !.feedback = ""],
                   all_users)

\* Back to Main App, and Cancel, of profile_edit_view
BackToMainApp ==
  \E s \in DOMAIN sessions :
    /\ Rendered(sessions[s]) = "profile_edit_view"
    /\ SessionStep(s, [sessions[s] EXCEPT !.show_profile_edit = FALSE, !.feedback = ""],
                   all_users)

\* Save Changes of profile_edit_view: the name and, when it is given twice
\* and valid, the password of the current user
SaveChanges ==
  \E s \in DOMAIN sessions :
    /\ Rendered(sessions[s]) = "profile_edit_view"
    /\ \E new_name \in {"Bob", "Rob"}, new_password \in {<<>>, p_valid, p_weak} :
       \E confirm_password \in {<<>>, new_password} :
         LET user == sessions[s].current_user[1]
             name_changed == new_name # all_users[user].name
             password_changed ==
               /\ new_password # <<>> /\ confirm_password # <<>>
               /\ new_password = confirm_password
               /\ validate_password(new_password)[1]
             updated ==
               [all_users EXCEPT
                  ![user].name = IF name_changed THEN new_name ELSE @,
                  ![user].password = IF password_changed THEN new_password ELSE @]
         IN  IF name_changed \/ password_changed
               THEN SessionStep(s, [sessions[s] EXCEPT
                                      !.current_user = Some(user),
                                      !.show_profile_edit = FALSE,
                                      !.feedback = "Profile updated successfully!"],
                                updated)
               ELSE SessionStep(s, [sessions[s] EXCEPT
                                      !.feedback = "No changes were made to your profile."],
                                all_users)

NextAuth ==
  \/ SubmitCreateAccount
  \/ CreateAccount
  \/ Login
  \/ Logout
  \/ EditProfile
  \/ BackToMainApp
  \/ SaveChanges

SpecAuth == InitAuth /\ [][NextAuth]_vars

SpecSession == InitSession /\ [][NextAuth]_vars

----------------------------------------------------------------------------
(* The Search tab of main_app: the feature toggle buttons and the Search   *)
(* button of one signed-in session                                         *)

\* ', '.join(list)
RECURSIVE CommaJoin(_)
CommaJoin(list) ==
  IF list = <<>> THEN <<>>
  ELSE IF Len(list) = 1 THEN list[1]
  ELSE list[1] \o <<",", " ">> \o CommaJoin(Tail(list))

\* list.remove(x): the list without the first x
remove(list, x) ==
  LET first == SetMin({i \in DOMAIN list : list[i] = x})
  IN  SubSeq(list, 1, first - 1) \o SubSeq(list, first + 1, Len(list))

\* The features of all properties: one toggle button each
all_features(props) ==
  UNION {{props[i].features[j] : j \in DOMAIN props[i].features} : i \in DOMAIN props}

is_selected(selected, feature) == \E i \in DOMAIN selected : selected[i] = feature

\* (mutant of can_select: no button is ever disabled)
can_select_always(selected, feature) == TRUE

\* The button of a feature is disabled unless can_select
can_select(selected, feature) == Len(selected) < 3 \/ is_selected(selected, feature)

\* get_recommendations of main.py: the recommendations, [] on an exception
main_get_recommendations(props, search_criteria, selected_features) ==
  LET built ==
        SearchCriteria(search_criteria.group_size,
                       search_criteria.preferred_environment,
                       search_criteria.min_budget, search_criteria.max_budget,
                       search_criteria.location,
                       IF selected_features # <<>> THEN CommaJoin(selected_features)
                       ELSE <<>>)
  IN  [criteria |-> built,
       recommendations |->
         Let(get_detailed_recommendations(props, built, 5),
             LAMBDA called : IF called.exc # "none" THEN <<>> ELSE called.val)]

\* The catalog of helpers.properties: four features to choose from
SearchCatalog ==
  WithIds(<< Property(s_Miami, s_condo, 2, <<s_pool, s_wifi>>, <<s_beach>>,
                      Coordinates(0, 0), Some(2)),
             Property(s_Aspen, s_cabin, 3, <<s_hiking, s_spa>>, <<s_mountain>>,
                      Coordinates(600, 0), Some(1)),
             Property(s_Miami, s_villa, 2, <<s_wifi>>, <<s_pool>>, None, Some(2)) >>)

\* What the form of the Search tab holds beside the features
SearchForms ==
  { [group_size |-> 4, preferred_environment |-> s_beach, min_budget |-> 2,
     max_budget |-> 3, location |-> <<>>] }

InitSearch ==
  /\ properties = SearchCatalog
  /\ criteria = BaseCriteria
  /\ top_k = 1
  /\ recs = NotCalled
  /\ detailed = NotCalled
  /\ score = NoScore
  /\ properties_data = NoFile
  /\ chatbot = NoChat
  /\ requests = <<>>
  /\ all_users = <<User(1, "Ann", "ann@example.com", p_valid)>>
  /\ account = NoAccount
  /\ sessions = <<[NewSession EXCEPT !.authenticated = TRUE,
                                     !.current_user = Some(1)]>>
  /\ selected_preferences = <<>>
  /\ session_recommendations = None

\* A click on the toggle button of a feature; a disabled button takes none
ToggleFeature ==
  /\ Rendered(sessions[1]) = "main_app"
  /\ \E feature \in all_features(properties) :
       /\ can_select(selected_preferences, feature)
       /\ selected_preferences' =
            IF is_selected(selected_preferences, feature)
              THEN remove(selected_preferences, feature)
              ELSE Append(selected_preferences, feature)
  /\ UNCHANGED <<properties, criteria, top_k, recs, detailed, score,
                 properties_data, chatbot, requests, accounts,
                 session_recommendations>>

\* A click on the Search button
Search ==
  /\ Rendered(sessions[1]) = "main_app"
  /\ \E search_criteria \in SearchForms :
       LET found == main_get_recommendations(properties, search_criteria,
                                             selected_preferences)
       IN  /\ criteria' = found.criteria
           /\ session_recommendations' = Some(found.recommendations)
  /\ UNCHANGED <<properties, top_k, recs, detailed, score, properties_data,
                 chatbot, requests, accounts, selected_preferences>>

NextSearch == ToggleFeature \/ Search

SpecSearch == InitSearch /\ [][NextSearch]_vars

----------------------------------------------------------------------------
(* Properties *)

QEq(a, b) == a[1] * b[2] = b[1] * a[2]
InUnitInterval(q) == QLe(Zero, q) /\ QLe(q, One)

\* SearchCriteria as the data model admits it
ValidCriteria(c) ==
  c.group_size > 0 /\ 0 <= c.min_budget /\ c.min_budget <= c.max_budget

\* PropertyRecord as the data model admits it
ValidRecord(prop) ==
  /\ prop.price_per_night >= 0
  /\ prop.bedrooms # None => prop.bedrooms[1] >= 0

Returned(call) == call.exc = "none"
WasCalled(call) == call.exc # "not_called"

\* The five sub-scores of a record under the request, in the order budget,
\* environment, features, location, group size
SubScores(prop) ==
  <<_calculate_budget_score(prop, criteria).val,
    _calculate_environment_score(prop, criteria).val,
    _calculate_features_score(prop, criteria).val,
    _calculate_location_score(properties, prop, criteria).val,
    _calculate_group_size_score(prop, criteria).val>>

\* The overall score of catalog entry i under the request
OverallOf(i) == _calculate_overall_score(properties, properties[i], criteria).val

\* Place of catalog entry i in the full stable descending order of the
\* catalog: behind every entry that scores higher and behind the earlier
\* entries that score the same
PlaceOf(i) ==
  1 + Cardinality({j \in DOMAIN properties :
                     \/ QLt(OverallOf(i), OverallOf(j))
                     \/ (j < i /\ QEq(OverallOf(j), OverallOf(i)))})

\* scores[i] never rises along the list, and entries with equal scores stand
\* in catalog order (the property_id of a catalog entry is its position)
SortedStable(scores, ids) ==
  \A i, j \in DOMAIN scores :
    i < j => /\ QLe(scores[j], scores[i])
             /\ (QEq(scores[i], scores[j]) => ids[i] < ids[j])

\* C1: get_recommendations and get_detailed_recommendations return their
\* entries in non-increasing order of overall score, and entries with equal
\* overall score in the order they have in the catalog.
C1_SortedStable ==
  /\ Returned(recs) =>
       SortedStable([i \in DOMAIN recs.val |-> recs.val[i].score],
                    [i \in DOMAIN recs.val |-> recs.val[i].property.property_id])
  /\ Returned(detailed) =>
       SortedStable([i \in DOMAIN detailed.val |-> detailed.val[i].overall_score],
                    [i \in DOMAIN detailed.val |->
                       detailed.val[i].property.property_id])

\* Both calls returned three entries: the first catalog entry went last, and
\* two entries with the same score stand in front of it
C1_Witness ==
  /\ Returned(recs) /\ Returned(detailed)
  /\ Len(recs.val) = 3 /\ Len(detailed.val) = 3
  /\ QEq(recs.val[1].score, recs.val[2].score)
  /\ QLt(recs.val[3].score, recs.val[2].score)
  /\ recs.val[3].property.property_id = 1
  /\ detailed.val[3].property.property_id = 1

\* C2: get_recommendations (and get_detailed_recommendations) raise
\* InvalidCriteria, and return no ranking, whenever min_budget > max_budget or
\* group_size <= 0 or top_k <= 0.
C2_InvalidCriteriaRaised ==
  LET invalid == \/ criteria.min_budget > criteria.max_budget
                 \/ criteria.group_size <= 0
                 \/ top_k <= 0
  IN  /\ (WasCalled(recs) /\ invalid) => recs.exc = "InvalidCriteria"
      /\ (WasCalled(detailed) /\ invalid) => detailed.exc = "InvalidCriteria"

\* C3: for valid criteria (max_budget = 0 included) and a non-empty catalog of
\* valid records, get_recommendations and get_detailed_recommendations return
\* a list and raise nothing.
C3_RankingTotal ==
  (/\ ValidCriteria(criteria)
   /\ properties # <<>>
   /\ \A i \in DOMAIN properties : ValidRecord(properties[i]))
  => /\ WasCalled(recs) => Returned(recs)
     /\ WasCalled(detailed) => Returned(detailed)

FiveScorers == {"budget", "environment", "features", "location", "group_size"}

\* C4: for a valid record and valid criteria each of the five sub-scores lies
\* in [0, 1].  (The one call that returns no score at all on such inputs is
\* the budget scorer dividing by max_budget = 0, which is what C3 is about.)
C4_SubScoresInUnitInterval ==
  (/\ score.fn \in FiveScorers
   /\ ValidCriteria(criteria)
   /\ ValidRecord(properties[score.prop]))
  => \/ Returned(score.ret) /\ InUnitInterval(score.ret.val)
     \/ /\ score.fn = "budget"
        /\ score.ret.exc = "ZeroDivisionError"
        /\ criteria.max_budget = 0
        /\ properties[score.prop].price_per_night > 0

\* The group-size scorer on a property far larger than the group needs: the
\* score is the 0.7 it is held at
C4_Witness ==
  /\ score.fn = "group_size"
  /\ ValidCriteria(criteria)
  /\ properties[score.prop].bedrooms = Some(MaxBedrooms)
  /\ criteria.group_size = 1
  /\ Returned(score.ret) /\ QEq(score.ret.val, Q(7, 10))

\* desired_location is present and non-blank: it has a character that is no
\* whitespace
NonBlank(s) == \E i \in DOMAIN s : s[i] # " "

WeightsAre(w, location, budget, features, group_size, environment) ==
  /\ DOMAIN w = {"location", "budget", "features", "group_size", "environment"}
  /\ QEq(w.location, location) /\ QEq(w.budget, budget)
  /\ QEq(w.features, features) /\ QEq(w.group_size, group_size)
  /\ QEq(w.environment, environment)

SumOfProducts(scores, w) ==
  QAdd(QMul(scores[1], w.budget),
  QAdd(QMul(scores[2], w.environment),
  QAdd(QMul(scores[3], w.features),
  QAdd(QMul(scores[4], w.location),
       QMul(scores[5], w.group_size)))))

\* C6: every overall score returned is the sum over the five criteria of
\* score * weight, and in every entry of get_detailed_recommendations it is
\* the sum of the five weighted_score values, where weighted_score is
\* score * weight and weight is what the weight policy gives for the request.
C6_OverallIsWeightedSum ==
  LET w == get_adaptive_weights(criteria) IN
  /\ Returned(recs) =>
       \A i \in DOMAIN recs.val :
         QEq(recs.val[i].score, SumOfProducts(SubScores(recs.val[i].property), w))
  /\ Returned(detailed) =>
       \A i \in DOMAIN detailed.val :
         LET b == detailed.val[i].score_breakdown IN
         /\ QEq(detailed.val[i].overall_score,
                QAdd(b.budget.weighted_score,
                QAdd(b.environment.weighted_score,
                QAdd(b.features.weighted_score,
                QAdd(b.location.weighted_score, b.group_size.weighted_score)))))
         /\ \A name \in DOMAIN b :
              /\ QEq(b[name].weighted_score, QMul(b[name].score, b[name].weight))
              /\ QEq(b[name].weight, w[name])

\* Both calls returned entries for a request that names a location (so the
\* weights are not the default ones), and the entries score differently
C6_Witness ==
  /\ Returned(recs) /\ Returned(detailed)
  /\ NonBlank(criteria.location)
  /\ Len(detailed.val) >= 2
  /\ QLt(detailed.val[2].overall_score, detailed.val[1].overall_score)
  /\ QLt(Zero, detailed.val[2].score_breakdown.budget.weighted_score)

Min(a, b) == IF a < b THEN a ELSE b

\* C7: for top_k > 0 get_recommendations returns exactly min(top_k, catalog
\* size) entries, each a distinct catalog record, and they are the first
\* top_k of the full stable descending order of the catalog, so that no
\* record left out scores higher than a returned one.
C7_TopKOfFullOrder ==
  (top_k > 0 /\ Returned(recs)) =>
    /\ Len(recs.val) = Min(top_k, Len(properties))
    /\ \A p \in DOMAIN recs.val :
         \E i \in DOMAIN properties :
           /\ recs.val[p].property = properties[i]
           /\ PlaceOf(i) = p
           /\ QEq(recs.val[p].score, OverallOf(i))
    /\ \A p, q \in DOMAIN recs.val :
         p # q => recs.val[p].property.property_id # recs.val[q].property.property_id
    /\ \A i \in DOMAIN properties :
         (\A p \in DOMAIN recs.val : recs.val[p].property # properties[i])
         => \A p \in DOMAIN recs.val : QLe(OverallOf(i), recs.val[p].score)

\* Two of three records returned; the one left out is not the last of the
\* catalog and scores lower than those returned
C7_Witness ==
  /\ Returned(recs)
  /\ top_k = 2 /\ Len(properties) = 3 /\ Len(recs.val) = 2
  /\ \E i \in DOMAIN properties :
       /\ i < 3
       /\ \A p \in DOMAIN recs.val :
            /\ recs.val[p].property # properties[i]
            /\ QLt(OverallOf(i), recs.val[p].score)

\* C8: for the same recommender, criteria and top_k,
\* get_detailed_recommendations returns the same records in the same order with
\* the same overall scores as get_recommendations (and raises when it raises);
\* it adds the breakdown, whose five scores are the five sub-scores of the record.
C8_DetailedRefinesRank ==
  (WasCalled(recs) /\ WasCalled(detailed)) =>
    /\ detailed.exc = recs.exc
    /\ Len(detailed.val) = Len(recs.val)
    /\ \A i \in DOMAIN detailed.val :
         LET d == detailed.val[i]
             sub == SubScores(d.property)
         IN  /\ d.property = recs.val[i].property
             /\ QEq(d.overall_score, recs.val[i].score)
             /\ DOMAIN d = {"property", "overall_score", "score_breakdown"}
             /\ QEq(d.score_breakdown.budget.score, sub[1])
             /\ QEq(d.score_breakdown.environment.score, sub[2])
             /\ QEq(d.score_breakdown.features.score, sub[3])
             /\ QEq(d.score_breakdown.location.score, sub[4])
             /\ QEq(d.score_breakdown.group_size.score, sub[5])

\* Both calls returned the whole of a three-record catalog, in an order that
\* is not the catalog's
C8_Witness ==
  /\ Returned(recs) /\ Returned(detailed)
  /\ Len(detailed.val) = 3
  /\ detailed.val[1].property.property_id # 1
  /\ QLt(detailed.val[3].overall_score, detailed.val[1].overall_score)

\* C9: the budget score is 0 for price < min_budget; for price > max_budget
\* it is 0 if (price - max_budget) / max_budget > 0.5 and else
\* 1 - (price - max_budget) / max_budget; within [min_budget, max_budget] it is
\* 1 if min_budget = max_budget and else
\* 1 - 0.3 * (price - min_budget) / (max_budget - min_budget).  So a price of
\* 1.6 * max_budget scores 0, a price of 1.1 * max_budget scores 0.9, and
\* price = min_budget scores higher than price = max_budget when
\* min_budget < max_budget.
C9_BudgetScore ==
  (score.fn = "budget" /\ Returned(score.ret)) =>
    LET prop == properties[score.prop]
        price == prop.price_per_night
        lo == criteria.min_budget
        hi == criteria.max_budget
        n == score.ret.val[1]
        d == score.ret.val[2]
    IN
    /\ price < lo => n = 0
    /\ (price >= lo /\ price > hi) =>
         IF 2 * (price - hi) > hi THEN n = 0
         ELSE n * hi = d * (hi - (price - hi))
    /\ (price >= lo /\ price <= hi) =>
         IF lo = hi THEN n = d
         ELSE n * 10 * (hi - lo) = d * (10 * (hi - lo) - 3 * (price - lo))
    /\ (price >= lo /\ hi > 0 /\ 10 * price = 16 * hi) => n = 0
    /\ (price >= lo /\ hi > 0 /\ 10 * price = 11 * hi) => 10 * n = 9 * d
    /\ lo < hi =>
         QLt(_calculate_budget_score([prop EXCEPT !.price_per_night = hi], criteria).val,
             _calculate_budget_score([prop EXCEPT !.price_per_night = lo], criteria).val)

\* The budget scorer on a price of 1.1 * max_budget, above min_budget
C9_Witness ==
  /\ score.fn = "budget" /\ Returned(score.ret)
  /\ criteria.max_budget = 10 /\ criteria.min_budget = 5
  /\ properties[score.prop].price_per_night = 11
  /\ QEq(score.ret.val, Q(9, 10))

----------------------------------------------------------------------------
(* Location scoring *)

\* The name a lookup or a text comparison works on: lower-cased and trimmed
Normalized(name) == Strip(Lower(name))

\* The score of the distance between two coordinate pairs
DistanceTier(a, b) ==
  distance_to_score(haversine_distance(a[1].lat, a[1].lng, b[1].lat, b[1].lng))

C12_RecordUsesOwnCoordinates ==
  (score.fn = "location" /\ Returned(score.ret) /\ criteria.location # <<>>) =>
    LET prop == properties[score.prop]
        user_coords == _get_location_coordinates(properties, criteria.location)
        named_coords == _get_location_coordinates(properties, prop.location)
        v == score.ret.val
    IN  user_coords # None =>
          /\ prop.coordinates # None =>
               QEq(v, DistanceTier(user_coords, prop.coordinates))
          /\ (prop.coordinates = None /\ named_coords # None) =>
               QEq(v, DistanceTier(user_coords, named_coords))

\* C13: the coordinate lookup of a name (case-insensitive, trimmed) returns
\* the coordinates of the first record in catalog order that has this
\* location name and carries coordinates, and nothing only when no record of
\* that name carries coordinates.
C13_LookupFirstWithCoordinates ==
  score.fn = "coordinates" =>
    LET name == Normalized(IF score.prop = 0 THEN criteria.location
                           ELSE properties[score.prop].location)
        carriers == {i \in DOMAIN properties :
                       /\ Normalized(properties[i].location) = name
                       /\ properties[i].coordinates # None}
    IN  IF carriers = {} THEN score.ret = None
        ELSE score.ret = properties[SetMin(carriers)].coordinates

----------------------------------------------------------------------------
(* Environment and features scoring *)

\* The environments the scorer knows
Environments == {s_mountain, s_lake, s_beach, s_city}

\* C15: the environment score is 0.5 when preferred_environment (in lower
\* case) is none of mountain, lake, beach, city; else, with location_signal
\* = 1 iff the record's lower-cased location is in the gazetteer of that
\* environment, and feature_signal = min(1, 0.6 + 0.1 * m) for m >= 1
\* keywords of the environment found in the lower-cased text of location,
\* property_type, features and tags (0.3 for m = 0), it is
\* 0.7 * location_signal + 0.3 * feature_signal if location_signal > 0 and
\* 0.3 * location_signal + 0.7 * feature_signal otherwise.
C15_EnvironmentScore ==
  (score.fn = "environment" /\ Returned(score.ret)) =>
    LET prop == properties[score.prop]
        env == Lower(criteria.preferred_environment)
        v == score.ret.val
    IN
    IF env \notin Environments THEN QEq(v, Q(1, 2))
    ELSE
      LET location_signal ==
            IF Lower(prop.location) \in location_environment_map(env)
              THEN 1 ELSE 0
          text == Lower(prop.location \o <<" ">> \o prop.property_type
                        \o <<" ">> \o Join(prop.features)
                        \o <<" ">> \o Join(prop.tags))
          keywords == environment_keywords(env)
          m == Cardinality({i \in DOMAIN keywords : Contains(keywords[i], text)})
          \* feature_signal in tenths
          feature_tenths == IF m >= 1 THEN Min(10, 6 + m) ELSE 3
      IN  IF location_signal > 0
            THEN QEq(v, Q(70 * location_signal + 3 * feature_tenths, 100))
            ELSE QEq(v, Q(30 * location_signal + 7 * feature_tenths, 100))

\* "beach" asked of a listing in Miami whose text holds all five beach
\* keywords: feature_signal is held at 1 and the score is 0.7 * 1 + 0.3 * 1
C15_Witness ==
  /\ score.fn = "environment" /\ Returned(score.ret)
  /\ criteria.preferred_environment = s_beach
  /\ properties[score.prop].location = s_Miami
  /\ properties[score.prop].tags = <<s_coastal>>
  /\ QEq(score.ret.val, One)

\* C16: the features score is 0.5 without preference text (empty or blank);
\* else, with T the set of lower-cased whitespace-separated tokens of the
\* text and matches the number of tokens of T found in the lower-cased text
\* of property_type, features and tags, it is
\* min(1, 0.5 + 0.5 * matches / |T|), and so always within [0.5, 1].
C16_FeaturesScore ==
  (score.fn = "features" /\ Returned(score.ret)) =>
    LET prop == properties[score.prop]
        T == SplitSet(Lower(criteria.user_preferences))
        text == Lower(prop.property_type \o <<" ">> \o Join(prop.features)
                      \o <<" ">> \o Join(prop.tags))
        matches == Cardinality({w \in T : Contains(w, text)})
        v == score.ret.val
    IN  /\ IF T = {} THEN QEq(v, Q(1, 2))
           ELSE QEq(v, QMin(One, Q(Cardinality(T) + matches, 2 * Cardinality(T))))
        /\ QLe(Q(1, 2), v) /\ QLe(v, One)

\* "POOL sauna" asked of a listing with a pool and no sauna: 0.5 + 0.5 * 1/2
C16_Witness ==
  /\ score.fn = "features" /\ Returned(score.ret)
  /\ criteria.user_preferences = s_POOL_sauna
  /\ s_pool \in {properties[score.prop].features[i] :
                   i \in DOMAIN properties[score.prop].features}
  /\ QEq(score.ret.val, Q(3, 4))

----------------------------------------------------------------------------
(* The worked ranking *)

\* The first n entries of a sequence
Prefix(list, n) == SubSeq(list, 1, Min(n, Len(list)))

\* C17: for the catalog A (price 150, 2 bedrooms, "Miami", no coordinates),
\* B (900, 1 bedroom, "Aspen"), C (200, 3 bedrooms, "Miami") and the request
\* group_size 4, budget [100, 300], environment "beach", desired location
\* "Miami", no preference text: B's budget score is 0, B has the lowest
\* overall score, and the ranking returned is A, C, B (its first top_k
\* entries), whatever the property types, features, tags and coordinates are.
C17_WorkedRanking ==
  /\ QEq(_calculate_budget_score(properties[2], criteria).val, Zero)
  /\ QLt(OverallOf(2), OverallOf(1)) /\ QLt(OverallOf(2), OverallOf(3))
  /\ WasCalled(recs) =>
       /\ Returned(recs)
       /\ [i \in DOMAIN recs.val |-> recs.val[i].property.property_id]
            = Prefix(<<1, 3, 2>>, top_k)
  /\ WasCalled(detailed) =>
       /\ Returned(detailed)
       /\ [i \in DOMAIN detailed.val |-> detailed.val[i].property.property_id]
            = Prefix(<<1, 3, 2>>, top_k)

\* All three were asked for and returned as A, C, B, with A's text holding no
\* beach keyword and C's holding all five
C17_Witness ==
  /\ Returned(recs) /\ Returned(detailed)
  /\ Len(recs.val) = 3
  /\ recs.val[1].property.property_id = 1
  /\ recs.val[2].property.property_id = 3
  /\ recs.val[3].property.property_id = 2
  /\ properties[1].tags = <<>>
  /\ properties[3].tags = <<s_coastal>>

----------------------------------------------------------------------------
(* The external recommendation path *)

\* The text holds, from position i to position j, one object whose members
\* are exactly `keys`
ObjectAt(text, i, j, keys) ==
  /\ i < j /\ text[i] = "{" /\ text[j] = "}"
  /\ \A n \in (i + 1)..(j - 1) : text[n] \in Members \cup {" "}
  /\ keys = {text[n] : n \in (i + 1)..(j - 1)} \ {" "}

RequiredFields == {required_fields[i] : i \in DOMAIN required_fields}

\* C18: get_location_recommendation returns no recommendation or exactly one
\* that holds all eight fields property_id, location, property_type,
\* price_per_night, bedrooms, features, tags, reasoning; on a timeout, a
\* service exception, a response that does not parse or that lacks a field
\* it returns no recommendation, and it never raises.
C18_ChatbotFailsClosed ==
  chatbot.called =>
    /\ Returned(chatbot.ret)
    /\ chatbot.ret.val # None =>
         /\ Len(chatbot.ret.val) = 1
         /\ RequiredFields \subseteq DOMAIN chatbot.ret.val[1]
         /\ Cardinality(RequiredFields) = 8
         /\ chatbot.response.kind = "content"
         /\ \E i, j \in DOMAIN chatbot.response.text :
              ObjectAt(chatbot.response.text, i, j, DOMAIN chatbot.ret.val[1])
    /\ chatbot.response.kind # "content" => chatbot.ret.val = None
    /\ (chatbot.response.kind = "content"
          /\ ~ \E i, j \in DOMAIN chatbot.response.text :
                 \E keys \in SUBSET Members :
                   /\ ObjectAt(chatbot.response.text, i, j, keys)
                   /\ RequiredFields \subseteq keys)
         => chatbot.ret.val = None

\* An answer that wraps the object in other text gave a recommendation
C18_Witness ==
  /\ chatbot.called /\ Returned(chatbot.ret)
  /\ chatbot.response.kind = "content"
  /\ chatbot.response.text # <<>> /\ chatbot.response.text[1] = "x"
  /\ chatbot.ret.val # None
  /\ "extra" \in DOMAIN chatbot.ret.val[1]

----------------------------------------------------------------------------
(* Catalog ingestion *)

RequiredKeys == {required_keys[i] : i \in DOMAIN required_keys}

\* The entry is an object that has every required field
Complete(entry) == entry.object /\ RequiredKeys \subseteq DOMAIN entry.members

\* C19: ingestion returns exactly the entries of the input that have all
\* required fields (property_id, location, property_type, price_per_night,
\* features, tags), in their original order; an entry lacking one is skipped
\* and the entries after it are still ingested.
C19_IngestionSkipsMalformed ==
  (properties_data.loaded /\ properties_data.file = "ok") =>
    LET kept == SelectSeq(properties_data.entries, Complete)
    IN  /\ Len(properties) = Len(kept)
        /\ \A n \in DOMAIN kept :
             \A key \in RequiredKeys :
               properties[n][key] = kept[n].members[key]

\* A file of three entries whose second lacks a field: the first and the
\* third were ingested, in this order
C19_Witness ==
  /\ properties_data.loaded
  /\ Len(properties_data.entries) = 3
  /\ Complete(properties_data.entries[1])
  /\ ~Complete(properties_data.entries[2])
  /\ properties_data.entries[2].object
  /\ Complete(properties_data.entries[3])
  /\ Len(properties) = 2
  /\ properties[1].property_id = 1
  /\ properties[2].property_id = 3

\* lat within [-90, 90] and lng within [-180, 180], in hundredths of a degree
InRange(coordinates) ==
  /\ 0 - 9000 <= coordinates.lat /\ coordinates.lat <= 9000
  /\ 0 - 18000 <= coordinates.lng /\ coordinates.lng <= 18000

\* The catalog with every out-of-range coordinate pair taken as absent
InRangeOnly(props) ==
  [n \in DOMAIN props |->
     IF props[n].coordinates # None /\ ~InRange(props[n].coordinates[1])
       THEN [props[n] EXCEPT !.coordinates = None]
       ELSE props[n]]

\* C20: a record whose coordinates are out of range (lat outside [-90, 90]
\* or lng outside [-180, 180]) is ingested, but its coordinates count as
\* absent: the coordinate lookup never returns them, and every location
\* score is the one the catalog gives with these coordinates absent.
C20_OutOfRangeCoordinatesAbsent ==
  properties_data.loaded =>
    /\ Len(properties) = Len(SelectSeq(properties_data.entries, Complete))
    /\ (score.fn = "coordinates" /\ score.ret # None) => InRange(score.ret[1])
    /\ score.fn = "location" =>
         score.ret = _calculate_location_score(InRangeOnly(properties),
                                               InRangeOnly(properties)[score.prop],
                                               criteria)

----------------------------------------------------------------------------
(* Text fallback, weight regimes and budget monotonicity *)

\* C22: the text-fallback location score is symmetric in its two names:
\* scoring desired location x against record location y gives the value of
\* scoring desired y against record x; so desired "new york" against record
\* "nyc" scores 0.9 as desired "nyc" against record "new york" does.
C22_TextFallbackSymmetric ==
  (score.fn = "text_location" /\ Returned(score.ret)) =>
    LET prop == properties[score.prop]
        swapped_prop == [prop EXCEPT !.location = criteria.location]
        swapped_criteria == [criteria EXCEPT !.location = prop.location]
    IN  QEq(score.ret.val,
            _calculate_text_based_location_score(swapped_prop, swapped_criteria))

\* C26: the location score is 0.7 for all records of a catalog exactly when
\* the weight policy selects the regime without location (location weight
\* 0.35); an empty desired location and one of whitespace only are "not
\* specified" for the weight policy and for the location scorer alike.
C26_NeutralExactlyWithoutLocation ==
  (score.fn = "location" /\ Returned(score.ret) /\ Len(properties) > 0) =>
    LET all_neutral ==
          \A i \in DOMAIN properties :
            QEq(_calculate_location_score(properties, properties[i], criteria).val,
                Q(7, 10))
    IN  all_neutral <=> QEq(get_adaptive_weights(criteria).location, Q(35, 100))

\* C27: for 0 < min_budget < max_budget the budget score never rises with the
\* price over the prices >= min_budget, so that a record priced above
\* max_budget never scores higher than one priced within the range.
C27_BudgetScoreNonIncreasing ==
  (/\ score.fn = "budget" /\ Returned(score.ret)
   /\ 0 < criteria.min_budget /\ criteria.min_budget < criteria.max_budget
   /\ properties[score.prop].price_per_night >= criteria.min_budget) =>
    LET prop == properties[score.prop] IN
    \A price \in prop.price_per_night..MaxPrice :
      QLe(_calculate_budget_score([prop EXCEPT !.price_per_night = price],
                                  criteria).val,
          score.ret.val)

\* C21: distance_to_score is 1.0 for distance 0 and for distances <= 5 km,
\* 0.9 for 5 < d <= 25, 0.7 for 25 < d <= 100, 0.4 for 100 < d <= 500 and 0.1
\* for d > 500, and so never rises with the distance; identical coordinates
\* score 1.0, 3 km score 1.0 and 600 km score 0.1.
C21_DistanceTiers ==
  /\ (score.fn = "distance" /\ Returned(score.ret)) =>
       LET d == score.prop
           v == score.ret.val
       IN  /\ d = 0 => QEq(v, One)
           /\ d <= 5000 => QEq(v, One)
           /\ (5000 < d /\ d <= 25000) => QEq(v, Q(9, 10))
           /\ (25000 < d /\ d <= 100000) => QEq(v, Q(7, 10))
           /\ (100000 < d /\ d <= 500000) => QEq(v, Q(4, 10))
           /\ 500000 < d => QEq(v, Q(1, 10))
           /\ \A farther \in Distances :
                farther >= d => QLe(distance_to_score(farther), v)
           /\ d = 3000 => QEq(v, One)
           /\ d = 600000 => QEq(v, Q(1, 10))
  /\ (score.fn = "points" /\ Returned(score.ret)) =>
       LET a == score.prop[1]
           b == score.prop[2]
       IN  /\ a = b => QEq(score.ret.val, One)
           /\ (a.lat = 0 /\ b.lat = 3) => QEq(score.ret.val, One)
           /\ (a.lat = 0 /\ b.lat = 540) => QEq(score.ret.val, Q(1, 10))

\* distance_to_score on the boundary of the first tier: 5 km score 1.0
C21_Witness ==
  /\ score.fn = "distance" /\ Returned(score.ret)
  /\ score.prop = 5000
  /\ QEq(score.ret.val, One)

----------------------------------------------------------------------------
(* Calls interleaved on one recommender *)

\* What a call returns when it runs alone on the catalog
Alone(call) ==
  IF call.kind = "rank"
    THEN get_recommendations(properties, call.criteria, call.top_k)
    ELSE get_detailed_recommendations(properties, call.criteria, call.top_k)

ReturnsAsAlone ==
  \A r \in DOMAIN requests :
    requests[r].pc = "done" => requests[r].ret = Alone(requests[r])

\* C23: no ranking or scoring operation writes to the catalog or to other
\* state shared between calls: no step of a get_recommendations or
\* get_detailed_recommendations call changes the order or the contents of
\* the catalog, and calls interleaved on one recommender each return what
\* they return when run alone.
C23_NoSharedWrites ==
  /\ []ReturnsAsAlone
  /\ [][properties' = properties]_vars

\* A get_recommendations call and a get_detailed_recommendations call on a
\* catalog of two listings that have both returned, each with another best
\* entry
C23_Witness ==
  /\ Len(properties) = 2
  /\ Len(requests) >= 2
  /\ requests[1].pc = "done" /\ requests[2].pc = "done"
  /\ requests[1].kind = "rank" /\ requests[2].kind = "detailed"
  /\ Returned(requests[1].ret) /\ Returned(requests[2].ret)
  /\ requests[1].ret.val[1].property.property_id = 1
  /\ requests[2].ret.val[1].property.property_id = 2

----------------------------------------------------------------------------
(* Accounts *)

\* The five requirements on a password, in their order
Requirement(n, password) ==
  CASE n = 1 -> Len(password) >= 8
    [] n = 2 -> \E i \in DOMAIN password : password[i] \in UpperChars
    [] n = 3 -> \E i \in DOMAIN password : password[i] \in LowerChars
    [] n = 4 -> \E i \in DOMAIN password : password[i] \in DigitChars
    [] n = 5 -> \E i \in DOMAIN password :
                  password[i] \notin UpperChars \cup LowerChars \cup DigitChars

RequirementMessage ==
  <<"Password must be at least 8 characters long",
    "Password must contain at least one uppercase letter",
    "Password must contain at least one lowercase letter",
    "Password must contain at least one number",
    "Password must contain at least one symbol">>

FailedRequirements(password) == {n \in 1..5 : ~Requirement(n, password)}

\* The call added exactly one user, the one it returned, or none
AddsOneUserIffValid ==
  IF FailedRequirements(account.password) = {}
    THEN /\ account.user # None
         /\ all_users = Append(account.before, account.user[1])
    ELSE /\ account.user = None
         /\ all_users = account.before

\* C24 as stated: create_user_account adds exactly one user to the list of
\* all users and returns it if and only if the password meets all five
\* requirements (8 characters at least, an uppercase letter, a lowercase
\* letter, a digit, a symbol that is not alphanumeric); else it returns no
\* user, with the message of the first requirement that failed, and leaves
\* the list as it was.
C24_MessageOfFirstFailedRequirement ==
  account.called =>
    /\ AddsOneUserIffValid
    /\ FailedRequirements(account.password) # {} =>
         account.message =
           RequirementMessage[SetMin(FailedRequirements(account.password))]

\* C24 amended: as stated, but an empty password is refused with the
\* message "Password cannot be empty", not with the message of the length
\* requirement.
C24_AccountIffPasswordValid ==
  account.called =>
    /\ AddsOneUserIffValid
    /\ FailedRequirements(account.password) # {} =>
         account.message =
           IF account.password = <<>> THEN "Password cannot be empty"
           ELSE RequirementMessage[SetMin(FailedRequirements(account.password))]

\* A call with a password of eight characters that has all four kinds of
\* character, on a list that held one user: the list holds two
C24_Witness ==
  /\ account.called
  /\ Len(account.password) = 8
  /\ FailedRequirements(account.password) = {}
  /\ Len(account.before) = 1
  /\ Len(all_users) = 2
  /\ account.user = Some(all_users[2])

----------------------------------------------------------------------------
(* Sessions *)

RefusalsOfSignUpAndLogin ==
  {"Please fill in all fields.", "Passwords do not match!",
   "An account with this email already exists. Please login instead.",
   "Invalid email or password. Please try again."}
  \cup {validate_password(password)[2] : password \in {<<>>, p_weak}}

\* C29: in every state of a session, authenticated is true if and only if
\* current_user refers to a user: a successful login and a successful
\* sign-up set both, logout clears both, a refused login or sign-up changes
\* neither; so main_app and profile_edit_view are only rendered with a
\* current user.
C29_AuthenticatedIffCurrentUser ==
  \A s \in DOMAIN sessions :
    LET session == sessions[s] IN
    /\ session.authenticated <=> session.current_user # None
    /\ session.current_user # None => session.current_user[1] \in DOMAIN all_users
    /\ session.feedback \in {"Welcome back", "Account created successfully! Welcome"} =>
         session.authenticated /\ session.current_user # None
    /\ session.feedback \in RefusalsOfSignUpAndLogin =>
         ~session.authenticated /\ session.current_user = None
    /\ Rendered(session) \in {"main_app", "profile_edit_view"} =>
         session.current_user # None

\* A session that signed up, logged out, and logged in again as the second
\* user of the list
C29_Witness ==
  /\ Len(sessions) = 1
  /\ sessions[1].authenticated
  /\ sessions[1].feedback = "Welcome back"
  /\ sessions[1].current_user = Some(2)
  /\ Rendered(sessions[1]) = "main_app"

\* C30: after any sign-up submissions, those of several sessions that
\* interleave between the lookup of the email and the creation of the
\* account included, no two users of the list have the same email address.
C30_EmailsUnique ==
  \A i \in DOMAIN all_users, j \in DOMAIN all_users :
    i # j => all_users[i].email # all_users[j].email

----------------------------------------------------------------------------
(* The Search tab *)

NoFeatureTwice(selected) ==
  \A i \in DOMAIN selected, j \in DOMAIN selected :
    i # j => selected[i] # selected[j]

AtMostThreeNoneTwice ==
  Len(selected_preferences) <= 3 /\ NoFeatureTwice(selected_preferences)

\* A click took a selected feature away, or added an unselected one to
\* fewer than 3
ClickToggles ==
  selected_preferences' # selected_preferences =>
    \E feature \in all_features(properties) :
      IF \E i \in DOMAIN selected_preferences : selected_preferences[i] = feature
        THEN /\ Len(selected_preferences') = Len(selected_preferences) - 1
             /\ \A i \in DOMAIN selected_preferences' :
                  selected_preferences'[i] # feature
             /\ \A f \in all_features(properties) \ {feature} :
                  SelectSeq(selected_preferences', LAMBDA x : x = f)
                    = SelectSeq(selected_preferences, LAMBDA x : x = f)
        ELSE /\ Len(selected_preferences) < 3
             /\ selected_preferences' = Append(selected_preferences, feature)

\* C25: after any clicks on the feature toggle buttons the list of selected
\* features holds at most 3 features and none twice; a click on a selected
\* feature removes it, a click on an unselected one adds it, and only while
\* fewer than 3 are selected.
C25_AtMostThreeSelected ==
  /\ []AtMostThreeNoneTwice
  /\ [][ClickToggles]_vars

\* Three features selected of which the first selected was taken away and
\* selected again: it is the last
C25_Witness ==
  /\ Len(selected_preferences) = 3
  /\ selected_preferences[1] = s_wifi
  /\ selected_preferences[3] = s_pool
  /\ \E feature \in all_features(properties) :
       ~can_select(selected_preferences, feature)

\* The feature is the type, a feature or a tag of the record
Listed(feature, prop) ==
  \/ Lower(feature) = Lower(prop.property_type)
  \/ \E i \in DOMAIN prop.features : Lower(feature) = Lower(prop.features[i])
  \/ \E i \in DOMAIN prop.tags : Lower(feature) = Lower(prop.tags[i])

\* C28: for a search from the Search tab with the features S selected (1 to
\* 3 features of one word each), every selected feature that a record lists
\* counts as a match: the features score of the record is
\* 0.5 + 0.5 * (number of features of S that are the type, a feature or a
\* tag of the record) / |S|, in whatever order S was selected.
C28_SelectedFeaturesAllCount ==
  (/\ session_recommendations # None
   /\ selected_preferences # <<>>
   /\ criteria.user_preferences = CommaJoin(selected_preferences)) =>
    \A n \in DOMAIN session_recommendations[1] :
      LET rec == session_recommendations[1][n]
          S == {selected_preferences[i] : i \in DOMAIN selected_preferences}
          listed == {feature \in S : Listed(feature, rec.property)}
      IN  QEq(rec.score_breakdown.features.score,
              QAdd(Q(1, 2), QMul(Q(1, 2), Q(Cardinality(listed), Cardinality(S)))))

====
